---------------------------- MODULE Spec2Model ----------------------------
(***************************************************************************)
(* A model of the ontology-driven normalization and entity-resolution core *)
(* of bidflow-personal-edition:                                            *)
(*   - ConstructionOntology        (src/construction_ontology.py)          *)
(*   - LightweightConstructionNLP  (src/demo_nlp_lightweight.py)           *)
(*   - ConstructionNLPEngine       (src/construction_nlp_engine.py)        *)
(*                                                                         *)
(* Python strings are TLA+ strings, handled character by character with    *)
(* Len, SubSeq and \o.  Optional[str] is a string, None being the string   *)
(* None below, which is no surface form of any term of the model.          *)
(* Confidences are integers in hundredths (0.9 is 90); conversion factors  *)
(* are integers in ten-thousandths (0.3048 is 3048).                       *)
(***************************************************************************)
EXTENDS Integers, Sequences, FiniteSets, TLC

VARIABLES
    vocabulary,      \* self.vocabulary: canonical_name -> VocabularyTerm
    synonym_map,     \* self.synonym_map: lower-cased surface form -> canonical_name
    category_index,  \* self.category_index: category -> set of canonical names
    log,             \* history: the terms add_term was called with, in call order
    exported,        \* the data of the last export_vocabulary() that was saved
    loaded,          \* the store a fresh, emptied ontology holds after loading `exported`
    nlp,             \* the extractor that owns the ontology, if any
    self_patterns,     \* self.patterns of the LightweightConstructionNLP
    input_text,         \* the text given to extract_entities
    is_trained,      \* self.bert_model.is_trained
    bert_entities,   \* what self.bert_model.predict(text) returns
    doc_ents,        \* self.spacy_nlp(text).ents
    first_tier,      \* the entities the last call took from the BERT model
    candidates,      \* the list the last call gave to _remove_overlaps
    returned,        \* the list the last call returned
    call,            \* the last query or load call: its name and arguments
    outcome,         \* what that call returned
    raised,          \* that call raised an exception
    user_corrections,    \* table user_corrections: row i is the correction with id i
    retraining_batches,  \* table retraining_batches: the batch ids stored
    batch,           \* the RetrainingBatch the last create_monthly_retraining_batch returned
    now,             \* datetime.now(), in days
    historical_estimates,  \* the list given to run_shadow_tests
    estimate_pos,    \* the estimates the loop of run_shadow_tests has taken
    shadow_results   \* shadow_results of run_shadow_tests

storeVars == <<vocabulary, synonym_map, category_index>>
extractVars == <<nlp, self_patterns, input_text, is_trained, bert_entities, doc_ents,
                 first_tier, candidates, returned>>
callVars == <<call, outcome, raised>>
correctionVars == <<user_corrections, retraining_batches, batch, now>>
shadowVars == <<historical_estimates, estimate_pos, shadow_results>>
vars == <<vocabulary, synonym_map, category_index, log, exported, loaded,
          nlp, self_patterns, input_text, is_trained, bert_entities, doc_ents,
          first_tier, candidates, returned, call, outcome, raised,
          user_corrections, retraining_batches, batch, now,
          historical_estimates, estimate_pos, shadow_results>>

-----------------------------------------------------------------------------
(* Bounds of the model *)

\* add_term calls after construction
MaxAdds == 4

\* add_term calls after construction in the runs that export and load
MaxLoadAdds == 3

\* add_term calls on the ontology of an extractor
MaxExtractAdds == 1

\* add_term calls before a file is loaded
MaxFileAdds == 1

\* add_term calls before the ontology is queried
MaxQueryAdds == 1

\* the largest offset of the candidates given to _remove_overlaps directly
MaxPos == 3

\* the longest candidate list given to _remove_overlaps directly
MaxCandidates == 3

-----------------------------------------------------------------------------
(* Strings *)

None == "<None>"

Ch(s, i) == SubSeq(s, i, i)

UpperChars == "ABCDEFGHIJKLMNOPQRSTUVWXYZ"
LowerChars == "abcdefghijklmnopqrstuvwxyz"
DigitChars == "0123456789"

IsDigit(c) == \E k \in 1..Len(DigitChars) : Ch(DigitChars, k) = c

\* the letters, upper case -> lower case and back
LowerOf == [c \in {Ch(UpperChars, k) : k \in 1..Len(UpperChars)} |->
               Ch(LowerChars, CHOOSE k \in 1..Len(UpperChars) : Ch(UpperChars, k) = c)]
UpperOf == [c \in {Ch(LowerChars, k) : k \in 1..Len(LowerChars)} |->
               Ch(UpperChars, CHOOSE k \in 1..Len(LowerChars) : Ch(LowerChars, k) = c)]

IsUpper(c) == c \in DOMAIN LowerOf
IsLower(c) == c \in DOMAIN UpperOf

LowerChar(c) == IF IsUpper(c) THEN LowerOf[c] ELSE c

UpperChar(c) == IF IsLower(c) THEN UpperOf[c] ELSE c

\* str.lower()
RECURSIVE Lower(_)
Lower(s) ==
    IF Len(s) = 0 THEN ""
    ELSE LowerChar(Ch(s, 1)) \o Lower(SubSeq(s, 2, Len(s)))

\* str.upper()
RECURSIVE Upper(_)
Upper(s) ==
    IF Len(s) = 0 THEN ""
    ELSE UpperChar(Ch(s, 1)) \o Upper(SubSeq(s, 2, Len(s)))

\* str.replace(a, b) for single characters a, b
RECURSIVE Replace(_, _, _)
Replace(s, a, b) ==
    IF Len(s) = 0 THEN ""
    ELSE (IF Ch(s, 1) = a THEN b ELSE Ch(s, 1)) \o Replace(SubSeq(s, 2, Len(s)), a, b)

-----------------------------------------------------------------------------
(* VocabularyCategory and VocabularyTerm *)

WORK_TYPE == "work_type"
MATERIAL  == "material"
UNIT      == "unit"
CREW_TYPE == "crew_type"
EQUIPMENT == "equipment"

\* the members of the enum, in definition order (the order `for cat in VocabularyCategory` visits)
VocabularyCategory == <<WORK_TYPE, MATERIAL, UNIT, CREW_TYPE, EQUIPMENT>>

Categories == {VocabularyCategory[i] : i \in 1..Len(VocabularyCategory)}

\* an empty dict
EmptyDict == [k \in {} |-> 0]

VocabularyTerm(name, cat, desc, syn, abbr, rel, conv, props) ==
    [canonical_name   |-> name,
     category         |-> cat,
     description      |-> desc,
     synonyms         |-> syn,
     abbreviations    |-> abbr,
     related_terms    |-> rel,
     unit_conversions |-> conv,
     properties       |-> props]

\* no call made yet
NoCall == [op |-> None, args |-> << >>]

\* Optional[VocabularyTerm]: the absent term
NoTerm == VocabularyTerm(None, None, None, {}, {}, {}, EmptyDict, EmptyDict)

-----------------------------------------------------------------------------
(* The seed vocabulary of _initialize_vocabulary.  The model keeps eight of  *)
(* its fifty terms, in the order of all_terms; they carry the surface forms  *)
(* that several seeded terms share (RF, DW, GWB, PC, drywall, sheetrock) and *)
(* an abbreviation written with a space (LIN FT).                            *)

Seed_roofing ==
    VocabularyTerm("roofing", WORK_TYPE, "Roof installation and waterproofing",
        {"roof_installation", "roof_work"}, {"ROOF", "RF"},
        {"shingles", "underlayment", "flashing"}, EmptyDict, EmptyDict)

Seed_drywall ==
    VocabularyTerm("drywall", WORK_TYPE, "Drywall installation and finishing",
        {"gypsum_board", "sheetrock"}, {"DW", "GWB"},
        {"tape", "mud", "texture"}, EmptyDict, EmptyDict)

Seed_concrete ==
    VocabularyTerm("concrete", MATERIAL, "Portland cement concrete",
        {"cement", "concrete_mix"}, {"CONC", "CNC"},
        {"aggregate", "cement", "water"}, EmptyDict,
        [strength |-> "variable", curing_time |-> "28_days"])

Seed_gypsum_board ==
    VocabularyTerm("gypsum_board", MATERIAL, "Drywall panels",
        {"drywall", "sheetrock", "wallboard"}, {"GWB", "DW"},
        {"screws", "tape", "compound"}, EmptyDict, EmptyDict)

Seed_linear_feet ==
    VocabularyTerm("linear_feet", UNIT, "Linear measurement in feet",
        {"linear_foot", "running_feet", "running_foot"}, {"LF", "LIN FT", "RF"},
        {}, [inches |-> 120000, yards |-> 3330, meters |-> 3048], EmptyDict)

Seed_each ==
    VocabularyTerm("each", UNIT, "Individual count unit",
        {"piece", "item", "unit"}, {"EA", "PC", "PCS"},
        {}, EmptyDict, EmptyDict)

Seed_plumbing_crew ==
    VocabularyTerm("plumbing_crew", CREW_TYPE, "Licensed plumbers",
        {"plumbing_team", "plumbers"}, {"PC", "PLMB_CREW"},
        {"pipe", "fittings", "fixtures"}, EmptyDict, EmptyDict)

Seed_excavator ==
    VocabularyTerm("excavator", EQUIPMENT, "Tracked excavating machine",
        {"track_hoe", "digger"}, {"EXC", "EXCV"},
        {"bucket", "tracks", "hydraulics"}, EmptyDict, EmptyDict)

\* all_terms = work_types + materials + units + crew_types + equipment
SeedTerms ==
    <<Seed_roofing, Seed_drywall, Seed_concrete, Seed_gypsum_board,
      Seed_linear_feet, Seed_each, Seed_plumbing_crew, Seed_excavator>>

-----------------------------------------------------------------------------
(* ConstructionOntology.  A store is the record of its three containers.     *)

\* d[k] = v
Put(d, k, v) == [x \in (DOMAIN d) \cup {k} |-> IF x = k THEN v ELSE d[x]]

\* ConstructionOntology.__init__ before _initialize_vocabulary
EmptyStore ==
    [vocabulary     |-> EmptyDict,
     synonym_map    |-> EmptyDict,
     category_index |-> [c \in Categories |-> {}]]

\* the keys add_term writes for a term: synonym.lower(), abbrev.lower(),
\* canonical_name.lower()
RegisteredKeys(term) ==
    {Lower(s) : s \in term.synonyms \cup term.abbreviations \cup {term.canonical_name}}

\* add_term with the stale category entry of a re-added name discarded after
\* the new entry is written instead of before
add_term_discard_after_add(S, term) ==
    LET keys == RegisteredKeys(term)
        name == term.canonical_name
        added == [S.category_index EXCEPT ![term.category] = @ \cup {name}]
    IN  [vocabulary     |-> Put(S.vocabulary, name, term),
         synonym_map    |-> [k \in (DOMAIN S.synonym_map) \cup keys |->
                                IF k \in keys THEN name ELSE S.synonym_map[k]],
         category_index |-> IF name \in DOMAIN S.vocabulary
                            THEN [added EXCEPT ![S.vocabulary[name].category] = @ \ {name}]
                            ELSE added]

\* add_term(term): every key it writes gets the same value, so the order in
\* which the two sets are visited does not show in the result
add_term(S, term) ==
    LET keys == RegisteredKeys(term)
    IN  [vocabulary     |-> Put(S.vocabulary, term.canonical_name, term),
         synonym_map    |-> [k \in (DOMAIN S.synonym_map) \cup keys |->
                                IF k \in keys
                                THEN term.canonical_name
                                ELSE S.synonym_map[k]],
         category_index |-> [S.category_index EXCEPT
                                ![term.category] = @ \cup {term.canonical_name}]]

\* for term in terms: self.add_term(term)
RECURSIVE AddAll(_, _)
AddAll(S, terms) ==
    IF Len(terms) = 0 THEN S
    ELSE AddAll(add_term(S, Head(terms)), Tail(terms))

\* normalize_term(input_term)
normalize_term(S, input_term) ==
    LET normalized == Replace(Lower(input_term), " ", "_")
    IN  IF normalized \in DOMAIN S.synonym_map
        THEN S.synonym_map[normalized]
        ELSE None

\* get_term(term): `if canonical:` is false for None and for the empty string
get_term(S, term) ==
    LET canonical == normalize_term(S, term)
    IN  IF canonical # None /\ canonical # "" /\ canonical \in DOMAIN S.vocabulary
        THEN S.vocabulary[canonical]
        ELSE NoTerm

\* get_terms_by_category(category), as the set of the terms of the returned list
get_terms_by_category(S, category) ==
    {S.vocabulary[name] : name \in S.category_index[category]}

\* get_terms_by_category(category) as the list it returns; order is the order
\* in which the set self.category_index[category] is iterated
get_terms_by_category_list(S, category, order) ==
    [i \in 1..Len(order) |-> S.vocabulary[order[i]]]

\* Optional[float]: no value, a value
NoFloat == << >>
Float(v) == <<v>>

\* convert_units with the normalized name tried before the verbatim one
convert_units_normalized_only(S, value, from_unit, to_unit) ==
    LET from_term == get_term(S, from_unit)
        to_canonical == normalize_term(S, to_unit)
    IN  IF from_term # NoTerm /\ to_canonical # None /\ to_canonical # ""
           /\ to_canonical \in DOMAIN from_term.unit_conversions
        THEN Float(value * from_term.unit_conversions[to_canonical])
        ELSE NoFloat

\* convert_units(value, from_unit, to_unit); value in units, the factors and
\* the result in ten-thousandths
convert_units(S, value, from_unit, to_unit) ==
    LET from_term == get_term(S, from_unit)
    IN  IF from_term # NoTerm
        THEN IF to_unit \in DOMAIN from_term.unit_conversions
             THEN Float(value * from_term.unit_conversions[to_unit])
             ELSE LET to_canonical == normalize_term(S, to_unit)
                  IN  IF to_canonical # None /\ to_canonical # ""
                         /\ to_canonical \in DOMAIN from_term.unit_conversions
                      THEN Float(value * from_term.unit_conversions[to_canonical])
                      ELSE NoFloat
        ELSE NoFloat

\* the dict export_vocabulary builds for one term; list(set) is kept as the
\* set of its elements
TermData(term) ==
    [description      |-> term.description,
     synonyms         |-> term.synonyms,
     abbreviations    |-> term.abbreviations,
     related_terms    |-> term.related_terms,
     unit_conversions |-> term.unit_conversions,
     properties       |-> term.properties]

\* export_vocabulary(): category.value -> term_name -> term data
export_vocabulary(S) ==
    [c \in Categories |->
        [term_name \in S.category_index[c] |-> TermData(S.vocabulary[term_name])]]

\* the loaded term with its abbreviations read from the 'synonyms' entry
LoadedTerm_abbreviations_from_synonyms(category, term_name, term_data) ==
    VocabularyTerm(term_name, category, term_data.description,
        term_data.synonyms, term_data.synonyms, term_data.related_terms,
        term_data.unit_conversions, term_data.properties)

\* the term load_from_json builds from one entry of the data
LoadedTerm(category, term_name, term_data) ==
    VocabularyTerm(term_name, category, term_data.description,
        term_data.synonyms, term_data.abbreviations, term_data.related_terms,
        term_data.unit_conversions, term_data.properties)

\* what a load_from_json call leaves: the store, the terms add_term was
\* called with, and whether the call ended in an exception
LoadOutcome(S, added, exception) ==
    [store |-> S, added |-> added, raised |-> exception]

\* the inner loop of load_from_json over one category; names is the order in
\* which terms_data.items() yields the names.  term_data['description'] is a
\* KeyError when the entry has no description.
RECURSIVE LoadCategory(_, _, _, _, _)
LoadCategory(S, added, data, category, names) ==
    IF Len(names) = 0 THEN LoadOutcome(S, added, FALSE)
    ELSE LET term_data == data[category][Head(names)]
         IN  IF "description" \notin DOMAIN term_data
             THEN LoadOutcome(S, added, TRUE)
             ELSE LET term == LoadedTerm(category, Head(names), term_data)
                  IN  LoadCategory(add_term(S, term), Append(added, term),
                                   data, category, Tail(names))

\* the outer loop of load_from_json; keys is the order in which data.items()
\* yields the top-level keys, order[k] the order of the names under key k.
\* VocabularyCategory(category_name) is a ValueError when the key is not the
\* value of a category.
RECURSIVE LoadFrom(_, _, _, _, _, _)
LoadFrom(S, added, data, keys, order, i) ==
    IF i > Len(keys) THEN LoadOutcome(S, added, FALSE)
    ELSE IF keys[i] \notin Categories THEN LoadOutcome(S, added, TRUE)
    ELSE LET inner == LoadCategory(S, added, data, keys[i], order[keys[i]])
         IN  IF inner.raised THEN inner
             ELSE LoadFrom(inner.store, inner.added, data, keys, order, i + 1)

\* load_from_json(filename), data being what json.load returns for the file
load_from_json(S, data, keys, order) == LoadFrom(S, << >>, data, keys, order, 1)

\* the sequences that list a set once each
Orderings(set) ==
    {seq \in [1..Cardinality(set) -> set] :
        \A i, j \in 1..Cardinality(set) : i # j => seq[i] # seq[j]}

-----------------------------------------------------------------------------
(* Regular expressions (module re), for the patterns the extractors use.   *)
(* Offsets are Python's: 0-based, a match is [start, end).                  *)

\* \w
IsWordChar(c) == IsUpper(c) \/ IsLower(c) \/ IsDigit(c) \/ c = "_"

\* text[i], the empty string outside the text
CharAt(text, i) == IF i >= 0 /\ i < Len(text) THEN Ch(text, i + 1) ELSE ""

\* \b at offset i: exactly one of the characters before and after is a word
\* character
WordBoundary(text, i) ==
    IsWordChar(CharAt(text, i - 1)) # IsWordChar(CharAt(text, i))

\* the number of digits from offset i on
RECURSIVE DigitRun(_, _)
DigitRun(text, i) ==
    IF IsDigit(CharAt(text, i)) THEN 1 + DigitRun(text, i + 1) ELSE 0

\* the number of groups ,\d{3} from offset i on
RECURSIVE CommaGroups(_, _)
CommaGroups(text, i) ==
    IF /\ CharAt(text, i) = ","
       /\ IsDigit(CharAt(text, i + 1))
       /\ IsDigit(CharAt(text, i + 2))
       /\ IsDigit(CharAt(text, i + 3))
    THEN 1 + CommaGroups(text, i + 4)
    ELSE 0

Min(a, b) == IF a < b THEN a ELSE b

\* the end of the first alternative the backtracking matcher accepts among
\* `tries`, records of the repetition counts k, g, f of the greedy parts in
\* pattern order (more repetitions are tried first); -1 when it accepts none
FirstAccepted(tries) ==
    IF tries = {} THEN -1
    ELSE (CHOOSE t \in tries : \A u \in tries :
              \/ t.k > u.k
              \/ t.k = u.k /\ t.g > u.g
              \/ t.k = u.k /\ t.g = u.g /\ t.f >= u.f).end

\* (?:\.\d+)?\b from offset p: the fraction lengths f after which \b holds
\* (0: the group is skipped)
FractionLengths(text, p) ==
    {f \in 0..(IF CharAt(text, p) = "." THEN DigitRun(text, p + 1) ELSE 0) :
        WordBoundary(text, IF f = 0 THEN p ELSE p + 1 + f)}

\* r'\b\d{1,3}(?:,\d{3})*(?:\.\d+)?\b' tried at offset i
CommaNumberEnd(text, i) ==
    IF ~WordBoundary(text, i) THEN -1
    ELSE FirstAccepted(UNION {UNION {
            {[k |-> k, g |-> g, f |-> f,
              end |-> IF f = 0 THEN i + k + 4 * g ELSE i + k + 4 * g + 1 + f] :
                f \in FractionLengths(text, i + k + 4 * g)} :
            g \in 0..CommaGroups(text, i + k)} :
            k \in 1..Min(3, DigitRun(text, i))})

\* r'\b\d+\.\d+\b' tried at offset i
DecimalNumberEnd(text, i) ==
    IF ~WordBoundary(text, i) THEN -1
    ELSE FirstAccepted(UNION {
            {[k |-> k, g |-> 0, f |-> f, end |-> i + k + 1 + f] :
                f \in {h \in 1..(IF CharAt(text, i + k) = "."
                                 THEN DigitRun(text, i + k + 1) ELSE 0) :
                          WordBoundary(text, i + k + 1 + h)}} :
            k \in 1..DigitRun(text, i)})

\* r'\b\d+\b' tried at offset i
IntegerNumberEnd(text, i) ==
    IF ~WordBoundary(text, i) THEN -1
    ELSE FirstAccepted(
            {[k |-> k, g |-> 0, f |-> 0, end |-> i + k] :
                k \in {h \in 1..DigitRun(text, i) : WordBoundary(text, i + h)}})

\* rf'\b{re.escape(literal)}\b' with re.IGNORECASE tried at offset i
LiteralEnd(text, literal, i) ==
    IF /\ i + Len(literal) <= Len(text)
       /\ WordBoundary(text, i)
       /\ Lower(SubSeq(text, i + 1, i + Len(literal))) = Lower(literal)
       /\ WordBoundary(text, i + Len(literal))
    THEN i + Len(literal)
    ELSE -1

\* the verbs of the operation pattern, in the order of its alternatives
OperationVerbs ==
    <<"install", "pour", "frame", "excavate", "apply", "set", "place",
      "mount", "run", "lay", "hang", "finish">>

\* r'\b(?:install|pour|...|finish)\b' with re.IGNORECASE tried at offset i:
\* the first alternative that matches
OperationEnd(text, i) ==
    LET hits == {n \in 1..Len(OperationVerbs) : LiteralEnd(text, OperationVerbs[n], i) # -1}
    IN  IF hits = {} THEN -1
        ELSE LiteralEnd(text, OperationVerbs[CHOOSE n \in hits : \A m \in hits : n <= m], i)

\* a compiled pattern is a record: kind says which of the expressions above
\* it is, literal is the surface form of a vocabulary pattern
COMMA_NUMBER   == "comma_number"
DECIMAL_NUMBER == "decimal_number"
INTEGER_NUMBER == "integer_number"
LITERAL        == "literal"
OPERATION_VERB == "operation_verb"

Pattern(kind, literal) == [kind |-> kind, literal |-> literal]

\* the end of the match of pattern at offset i, -1 when there is none
MatchEnd(pattern, text, i) ==
    CASE pattern.kind = COMMA_NUMBER   -> CommaNumberEnd(text, i)
      [] pattern.kind = DECIMAL_NUMBER -> DecimalNumberEnd(text, i)
      [] pattern.kind = INTEGER_NUMBER -> IntegerNumberEnd(text, i)
      [] pattern.kind = LITERAL        -> LiteralEnd(text, pattern.literal, i)
      [] pattern.kind = OPERATION_VERB -> OperationEnd(text, i)

\* re.finditer(pattern, text) from offset `from` on: the matches left to
\* right, each search resuming where the match before it ended (the patterns
\* above match no empty string)
RECURSIVE finditer(_, _, _)
finditer(pattern, text, from) ==
    LET starts == {i \in from..Len(text) : MatchEnd(pattern, text, i) > i}
    IN  IF starts = {} THEN << >>
        ELSE LET start == CHOOSE i \in starts : \A j \in starts : i <= j
                 end   == MatchEnd(pattern, text, start)
             IN  <<[start |-> start, end |-> end,
                    text |-> SubSeq(text, start + 1, end)]>>
                 \o finditer(pattern, text, end)

-----------------------------------------------------------------------------
(* LightweightConstructionNLP: patterns and extract_entities                 *)

QUANTITY  == "QUANTITY"
OPERATION == "OPERATION"
LABEL_UNIT      == "UNIT"
LABEL_MATERIAL  == "MATERIAL"
LABEL_EQUIPMENT == "EQUIPMENT"

\* LightweightEntityExtraction / EntityExtraction, as the constructor calls
\* of the extractors build it: the three ontology fields default to None
EntityExtraction(start, end, label, text, confidence) ==
    [start |-> start, end |-> end, label |-> label, text |-> text,
     confidence |-> confidence,
     ontology_id |-> None, ontology_category |-> None, normalized_value |-> None]

\* a set as a list.  The iteration order of a Python set is not specified;
\* the lists below are only used to build patterns, and no two surface forms
\* of one set of a term of the vocabularies of this model match at the same
\* offset of a text (neither is the other followed by a non-word character),
\* so the start-sorted candidate list is the same for every order.
RECURSIVE SetToSeq(_)
SetToSeq(set) ==
    IF set = {} THEN << >>
    ELSE LET x == CHOOSE y \in set : TRUE
         IN  <<x>> \o SetToSeq(set \ {x})

\* [f(x) for x in seq] for f = a literal pattern of the form with its
\* underscores as spaces (spaced) or as it is
RECURSIVE LiteralPatterns(_, _)
LiteralPatterns(forms, spaced) ==
    IF Len(forms) = 0 THEN << >>
    ELSE <<Pattern(LITERAL, IF spaced THEN Replace(Head(forms), "_", " ") ELSE Head(forms))>>
         \o LiteralPatterns(Tail(forms), spaced)

\* what one pass of the loop of _build_patterns appends for a term, per label
UnitPatternsOf(term) ==
    IF term.category # UNIT THEN << >>
    ELSE LiteralPatterns(SetToSeq(term.abbreviations), FALSE)
         \o LiteralPatterns(<<term.canonical_name>>, TRUE)

MaterialPatternsOf(term) ==
    IF term.category # MATERIAL THEN << >>
    ELSE LiteralPatterns(<<term.canonical_name>>, TRUE)
         \o LiteralPatterns(SetToSeq(term.synonyms), TRUE)
         \o LiteralPatterns(SetToSeq(term.abbreviations), FALSE)

EquipmentPatternsOf(term) ==
    IF term.category # EQUIPMENT THEN << >>
    ELSE LiteralPatterns(<<term.canonical_name>>, TRUE)
         \o LiteralPatterns(SetToSeq(term.synonyms), TRUE)

\* the keys of self.vocabulary in dict order: the canonical names in the
\* order of their first add_term call
RECURSIVE DictOrder(_)
DictOrder(calls) ==
    IF Len(calls) = 0 THEN << >>
    ELSE LET before == DictOrder(SubSeq(calls, 1, Len(calls) - 1))
             name   == calls[Len(calls)].canonical_name
         IN  IF \E i \in 1..Len(before) : before[i] = name
             THEN before
             ELSE Append(before, name)

\* _build_patterns(), the loop over self.ontology.vocabulary.items()
RECURSIVE OntologyPatterns(_, _, _)
OntologyPatterns(S, names, acc) ==
    IF Len(names) = 0 THEN acc
    ELSE LET term == S.vocabulary[Head(names)]
         IN  OntologyPatterns(S, Tail(names),
                [acc EXCEPT !.unit      = @ \o UnitPatternsOf(term),
                            !.material  = @ \o MaterialPatternsOf(term),
                            !.equipment = @ \o EquipmentPatternsOf(term)])

\* _build_patterns()
_build_patterns(S, names) ==
    OntologyPatterns(S, names,
        [quantity  |-> <<Pattern(COMMA_NUMBER, ""), Pattern(DECIMAL_NUMBER, ""),
                         Pattern(INTEGER_NUMBER, "")>>,
         unit      |-> << >>,
         material  |-> << >>,
         equipment |-> << >>,
         operation |-> <<Pattern(OPERATION_VERB, "")>>])

\* no extractor constructed: no patterns
NoPatterns ==
    [quantity |-> << >>, unit |-> << >>, material |-> << >>,
     equipment |-> << >>, operation |-> << >>]

\* the three assignments under `if ontology_term:`; a VocabularyTerm object
\* is always true
Aligned(S, entity) ==
    LET ontology_term == get_term(S, entity.text)
    IN  IF ontology_term # NoTerm
        THEN [entity EXCEPT !.ontology_id = ontology_term.canonical_name,
                            !.ontology_category = ontology_term.category,
                            !.normalized_value = ontology_term.canonical_name]
        ELSE entity

\* the entities one `for match in re.finditer(...)` loop appends
RECURSIVE MatchEntities(_, _, _, _, _)
MatchEntities(S, matches, label, confidence, align) ==
    IF Len(matches) = 0 THEN << >>
    ELSE LET m == Head(matches)
             entity == EntityExtraction(m.start, m.end, label, m.text, confidence)
         IN  <<IF align THEN Aligned(S, entity) ELSE entity>>
             \o MatchEntities(S, Tail(matches), label, confidence, align)

\* the entities one `for pattern in self.patterns[...]` loop appends
RECURSIVE PatternEntities(_, _, _, _, _, _)
PatternEntities(S, pats, text, label, confidence, align) ==
    IF Len(pats) = 0 THEN << >>
    ELSE MatchEntities(S, finditer(Head(pats), text, 0), label, confidence, align)
         \o PatternEntities(S, Tail(pats), text, label, confidence, align)

\* a sort that leaves the list in the order the candidates were appended
SortByStart_as_appended(entities) == entities

\* list.sort(key=lambda x: x.start): stable
RECURSIVE SortByStart(_)
SortByStart(entities) ==
    IF Len(entities) = 0 THEN << >>
    ELSE LET sorted == SortByStart(SubSeq(entities, 1, Len(entities) - 1))
             x      == entities[Len(entities)]
             n      == Cardinality({i \in 1..Len(sorted) : sorted[i].start <= x.start})
         IN  SubSeq(sorted, 1, n) \o <<x>> \o SubSeq(sorted, n + 1, Len(sorted))

\* the loop of _remove_overlaps with >= for >: on equal confidence the later
\* candidate replaces the retained one
RECURSIVE RemoveOverlapsFrom_ties_replace(_, _, _)
RemoveOverlapsFrom_ties_replace(entities, i, filtered) ==
    IF i > Len(entities) THEN filtered
    ELSE LET entity      == entities[i]
             last_entity == filtered[Len(filtered)]
         IN  RemoveOverlapsFrom_ties_replace(entities, i + 1,
                IF entity.start < last_entity.end
                THEN IF entity.confidence >= last_entity.confidence
                     THEN [filtered EXCEPT ![Len(filtered)] = entity]
                     ELSE filtered
                ELSE Append(filtered, entity))

\* the loop of _remove_overlaps over entities[i..], filtered being the list
\* built so far
RECURSIVE RemoveOverlapsFrom(_, _, _)
RemoveOverlapsFrom(entities, i, filtered) ==
    IF i > Len(entities) THEN filtered
    ELSE LET entity      == entities[i]
             last_entity == filtered[Len(filtered)]
         IN  RemoveOverlapsFrom(entities, i + 1,
                IF entity.start < last_entity.end
                THEN IF entity.confidence > last_entity.confidence
                     THEN [filtered EXCEPT ![Len(filtered)] = entity]
                     ELSE filtered
                ELSE Append(filtered, entity))

\* a _remove_overlaps that returns the list it is given
_remove_overlaps_keep_all(entities) == entities

\* _remove_overlaps(entities)
_remove_overlaps(entities) ==
    IF Len(entities) = 0 THEN entities
    ELSE RemoveOverlapsFrom(entities, 2, <<entities[1]>>)

\* extract_entities up to the sort: the candidates in the order they are
\* appended
LightCandidates(S, pats, text) ==
    PatternEntities(S, pats.quantity, text, QUANTITY, 90, FALSE)
    \o PatternEntities(S, pats.unit, text, LABEL_UNIT, 85, TRUE)
    \o PatternEntities(S, pats.material, text, LABEL_MATERIAL, 80, TRUE)
    \o PatternEntities(S, pats.equipment, text, LABEL_EQUIPMENT, 80, TRUE)
    \o PatternEntities(S, pats.operation, text, OPERATION, 90, FALSE)

\* LightweightConstructionNLP.extract_entities(text)
light_extract_entities(S, pats, text) ==
    _remove_overlaps(SortByStart(LightCandidates(S, pats, text)))

-----------------------------------------------------------------------------
(* ConstructionNLPEngine.extract_entities                                    *)

\* a span of doc.ents as extract_entities reads it
SpacyEnt(start_char, end_char, label_, text) ==
    [start_char |-> start_char, end_char |-> end_char, label_ |-> label_,
     text |-> text]

\* the loop `for ent in doc.ents`: entities is the list built so far, which
\* starts as the entities of the BERT model
RECURSIVE SpacyEntities(_, _, _)
SpacyEntities(S, ents, entities) ==
    IF Len(ents) = 0 THEN entities
    ELSE LET ent == Head(ents)
             overlaps == \E k \in 1..Len(entities) :
                            /\ ent.start_char < entities[k].end
                            /\ ent.end_char > entities[k].start
         IN  SpacyEntities(S, Tail(ents),
                IF ~overlaps
                THEN Append(entities,
                        Aligned(S, EntityExtraction(ent.start_char, ent.end_char,
                                                    ent.label_, ent.text, 80)))
                ELSE entities)

\* _extract_quantities(text)
_extract_quantities(text) ==
    MatchEntities(EmptyStore, finditer(Pattern(COMMA_NUMBER, ""), text, 0),
                  QUANTITY, 90, FALSE)

\* ConstructionNLPEngine.extract_entities(text, use_bert), given what the
\* BERT model predicts for the text and what the spaCy pipeline finds in it
engine_extract_entities(S, text, use_bert, trained, predicted, ents) ==
    SortByStart(
        SpacyEntities(S, ents, IF use_bert /\ trained THEN predicted ELSE << >>)
        \o _extract_quantities(text))

-----------------------------------------------------------------------------
(* analyze_construction_scope and its helpers, of both extractors            *)

\* keyword in text
Substring(keyword, text) ==
    \E i \in 0..(Len(text) - Len(keyword)) :
        SubSeq(text, i + 1, i + Len(keyword)) = keyword

\* work_type_keywords, in the order of the dict literal
work_type_keywords ==
    <<[work_type |-> "concrete_work",
       keywords |-> <<"concrete", "pour", "footing", "slab", "foundation">>],
      [work_type |-> "excavation",
       keywords |-> <<"excavate", "dig", "grade", "trench", "soil">>],
      [work_type |-> "framing",
       keywords |-> <<"frame", "lumber", "stud", "joist", "beam">>],
      [work_type |-> "electrical",
       keywords |-> <<"electrical", "wire", "conduit", "panel", "circuit">>],
      [work_type |-> "plumbing",
       keywords |-> <<"plumbing", "pipe", "water", "drain", "sewer">>],
      [work_type |-> "roofing",
       keywords |-> <<"roof", "shingle", "membrane", "flashing">>],
      [work_type |-> "masonry",
       keywords |-> <<"brick", "block", "masonry", "mortar">>],
      [work_type |-> "drywall",
       keywords |-> <<"drywall", "sheetrock", "gypsum", "hang", "tape">>],
      [work_type |-> "insulation",
       keywords |-> <<"insulation", "insulate", "batt", "foam">>],
      [work_type |-> "flooring",
       keywords |-> <<"floor", "flooring", "tile", "carpet", "hardwood">>]>>

\* any(keyword in text_lower for keyword in keywords)
AnyKeyword(keywords, text_lower) ==
    \E k \in 1..Len(keywords) : Substring(keywords[k], text_lower)

\* a _determine_work_type that returns the last work type that matches
DetermineWorkType_last_match(text_lower, i) ==
    LET hits == {k \in 1..Len(work_type_keywords) :
                    AnyKeyword(work_type_keywords[k].keywords, text_lower)}
    IN  IF hits = {} THEN None
        ELSE work_type_keywords[CHOOSE k \in hits : \A h \in hits : h <= k].work_type

\* the loop of _determine_work_type from entry i of the table on
RECURSIVE DetermineWorkTypeFrom(_, _)
DetermineWorkTypeFrom(text_lower, i) ==
    IF i > Len(work_type_keywords) THEN None
    ELSE IF AnyKeyword(work_type_keywords[i].keywords, text_lower)
         THEN work_type_keywords[i].work_type
         ELSE DetermineWorkTypeFrom(text_lower, i + 1)

\* _determine_work_type(text), the same in both extractors (the entities
\* argument of the combined extractor is not read)
_determine_work_type(text) == DetermineWorkTypeFrom(Lower(text), 1)

\* LightweightConstructionNLP._extract_operation(entities)
RECURSIVE light_extract_operation(_)
light_extract_operation(entities) ==
    IF Len(entities) = 0 THEN None
    ELSE IF Head(entities).label = OPERATION THEN Lower(Head(entities).text)
    ELSE light_extract_operation(Tail(entities))

\* the value of a string of digits
RECURSIVE DigitsValue(_)
DigitsValue(s) ==
    IF Len(s) = 0 THEN 0
    ELSE 10 * DigitsValue(SubSeq(s, 1, Len(s) - 1))
         + ((CHOOSE k \in 1..Len(DigitChars) : Ch(DigitChars, k) = Ch(s, Len(s))) - 1)

AllDigits(s) == \A i \in 1..Len(s) : IsDigit(Ch(s, i))

\* a string of digits without its trailing zeros
RECURSIVE StripZeros(_)
StripZeros(s) ==
    IF Len(s) > 0 /\ Ch(s, Len(s)) = "0" THEN StripZeros(SubSeq(s, 1, Len(s) - 1))
    ELSE s

\* the float of a decimal numeral: its whole part and the digits after the point
Decimal(whole, frac) == [units |-> DigitsValue(whole), fraction |-> StripZeros(frac)]

\* float(s) for the strings of the model: digits with an optional point and
\* digits after it; every other string of the model is a ValueError, which is
\* no value here
ParseFloat(s) ==
    LET points == {i \in 1..Len(s) : Ch(s, i) = "."}
    IN  IF points = {}
        THEN IF Len(s) > 0 /\ AllDigits(s) THEN Float(Decimal(s, ""))
             ELSE NoFloat
        ELSE LET p == CHOOSE i \in points : TRUE
                 whole == SubSeq(s, 1, p - 1)
                 frac  == SubSeq(s, p + 1, Len(s))
             IN  IF /\ Cardinality(points) = 1
                    /\ Len(whole) + Len(frac) > 0
                    /\ AllDigits(whole) /\ AllDigits(frac)
                 THEN Float(Decimal(whole, frac))
                 ELSE NoFloat

\* the texts of the entities of a label, in list order
RECURSIVE TextsOf(_, _)
TextsOf(entities, label) ==
    IF Len(entities) = 0 THEN << >>
    ELSE (IF Head(entities).label = label THEN <<Head(entities).text>> ELSE << >>)
         \o TextsOf(Tail(entities), label)

\* quantities that end at the first QUANTITY entity whose text is no number
RECURSIVE Quantities_stop_at_error(_)
Quantities_stop_at_error(entities) ==
    IF Len(entities) = 0 THEN << >>
    ELSE IF Head(entities).label # QUANTITY
         THEN Quantities_stop_at_error(Tail(entities))
    ELSE IF ParseFloat(Replace(Head(entities).text, ",", "")) = NoFloat THEN << >>
    ELSE ParseFloat(Replace(Head(entities).text, ",", ""))
         \o Quantities_stop_at_error(Tail(entities))

\* quantities: float(entity.text.replace(',', '')) of the QUANTITY entities,
\* a ValueError passed over
RECURSIVE Quantities(_)
Quantities(entities) ==
    IF Len(entities) = 0 THEN << >>
    ELSE (IF Head(entities).label = QUANTITY
          THEN ParseFloat(Replace(Head(entities).text, ",", ""))
          ELSE << >>)
         \o Quantities(Tail(entities))

RECURSIVE SumConfidence(_)
SumConfidence(entities) ==
    IF Len(entities) = 0 THEN 0
    ELSE Head(entities).confidence + SumConfidence(Tail(entities))

\* a float that is the quotient of two integers
Quotient(num, den) == [num |-> num, den |-> den]

\* a confidence score that divides by the number of entities of confidence
\* above a half
_calculate_confidence_score_confident_only(entities) ==
    IF Len(entities) = 0 THEN Quotient(0, 1)
    ELSE Quotient(SumConfidence(entities),
                  Cardinality({i \in 1..Len(entities) : entities[i].confidence > 50}) + 1)

\* _calculate_confidence_score(entities); the lightweight extractor computes
\* the same in analyze_construction_scope.  Confidences are in hundredths.
_calculate_confidence_score(entities) ==
    IF Len(entities) = 0 THEN Quotient(0, 1)
    ELSE Quotient(SumConfidence(entities), Len(entities))

\* the part of analyze_construction_scope both extractors share: the analysis
\* built from the text, the entities, the work type and the operation (the
\* lightweight extractor has no MODIFIER branch and no MODIFIER entity)
ScopeAnalysis(text, entities, work_type, operation) ==
    LET quantities == Quantities(entities)
        units == TextsOf(entities, LABEL_UNIT)
    IN  [original_text    |-> text,
         entities         |-> entities,
         work_type        |-> work_type,
         operation        |-> operation,
         total_quantity   |-> IF Len(quantities) > 0 THEN Float(quantities[1]) ELSE NoFloat,
         primary_unit     |-> IF Len(units) > 0 THEN units[1] ELSE None,
         materials        |-> TextsOf(entities, LABEL_MATERIAL),
         equipment        |-> TextsOf(entities, LABEL_EQUIPMENT),
         modifiers        |-> TextsOf(entities, "MODIFIER"),
         confidence_score |-> _calculate_confidence_score(entities)]

\* LightweightConstructionNLP.analyze_construction_scope, given the entities
\* extract_entities returned for the text
light_analyze_construction_scope(text, entities) ==
    ScopeAnalysis(text, entities, _determine_work_type(text),
                  light_extract_operation(entities))

\* a token of the spaCy doc as _extract_operation reads it
Token(pos_, dep_, lemma_) == [pos_ |-> pos_, dep_ |-> dep_, lemma_ |-> lemma_]

\* operations, the fallback list of _extract_operation
operations ==
    <<"install", "pour", "frame", "excavate", "apply", "set", "place", "mount",
      "run", "lay">>

\* the fallback loop of _extract_operation from entry i of the list on
RECURSIVE FallbackOperationFrom(_, _)
FallbackOperationFrom(text_lower, i) ==
    IF i > Len(operations) THEN None
    ELSE IF Substring(operations[i], text_lower) THEN operations[i]
    ELSE FallbackOperationFrom(text_lower, i + 1)

\* an _extract_operation that takes the first verb whatever its dependency
engine_extract_operation_any_verb(text, doc) ==
    IF \E k \in 1..Len(doc) : doc[k].pos_ = "VERB"
    THEN doc[CHOOSE k \in 1..Len(doc) :
                /\ doc[k].pos_ = "VERB"
                /\ \A j \in 1..(k - 1) : doc[j].pos_ # "VERB"].lemma_
    ELSE FallbackOperationFrom(Lower(text), 1)

\* ConstructionNLPEngine._extract_operation(text), doc being the tokens of
\* self.spacy_nlp(text)
engine_extract_operation(text, doc) ==
    LET main == {k \in 1..Len(doc) :
                    doc[k].pos_ = "VERB" /\ doc[k].dep_ \in {"ROOT", "ccomp", "xcomp"}}
    IN  IF main # {}
        THEN doc[CHOOSE k \in main : \A j \in main : k <= j].lemma_
        ELSE FallbackOperationFrom(Lower(text), 1)

\* ConstructionNLPEngine.analyze_construction_scope, given the entities
\* extract_entities returned for the text and the tokens of the doc
engine_analyze_construction_scope(text, entities, doc) ==
    ScopeAnalysis(text, entities, _determine_work_type(text),
                  engine_extract_operation(text, doc))

\* the dict appended to a bucket of ontology_alignment
AlignmentRecord(entity) ==
    [original |-> entity.text, canonical |-> entity.ontology_id,
     category |-> entity.ontology_category]

\* `if entity.ontology_id:` None and the empty string are false
Truthy(value) == value # None /\ value # ""

\* entity_dict of export_structured_output: the three alignment keys are set
\* under `if entity.ontology_id:` only
EntityDict(entity) ==
    LET base == [text |-> entity.text, label |-> entity.label,
                 start |-> entity.start, end |-> entity.end,
                 confidence |-> entity.confidence]
    IN  IF Truthy(entity.ontology_id)
        THEN base @@ [ontology_id |-> entity.ontology_id,
                      ontology_category |-> entity.ontology_category,
                      normalized_value |-> entity.normalized_value]
        ELSE base

\* a bucket filled by the ontology category of the entity, not by its label
RECURSIVE ExportBucket_by_category(_, _)
ExportBucket_by_category(entities, label) ==
    IF Len(entities) = 0 THEN << >>
    ELSE (IF /\ Truthy(Head(entities).ontology_id)
             /\ Upper(Head(entities).ontology_category) = label
          THEN <<AlignmentRecord(Head(entities))>> ELSE << >>)
         \o ExportBucket_by_category(Tail(entities), label)

\* what the loop of export_structured_output appends to the bucket of a label
RECURSIVE ExportBucket(_, _)
ExportBucket(entities, label) ==
    IF Len(entities) = 0 THEN << >>
    ELSE (IF Truthy(Head(entities).ontology_id) /\ Head(entities).label = label
          THEN <<AlignmentRecord(Head(entities))>> ELSE << >>)
         \o ExportBucket(Tail(entities), label)

\* ConstructionNLPEngine.export_structured_output(analysis)
engine_export_structured_output(analysis) ==
    [input_text |-> analysis.original_text,
     analysis_metadata |->
        [work_type |-> analysis.work_type,
         operation |-> analysis.operation,
         confidence_score |-> analysis.confidence_score,
         total_quantity |-> analysis.total_quantity,
         primary_unit |-> analysis.primary_unit],
     entities |-> [i \in 1..Len(analysis.entities) |-> EntityDict(analysis.entities[i])],
     ontology_alignment |->
        [materials |-> ExportBucket(analysis.entities, LABEL_MATERIAL),
         equipment |-> ExportBucket(analysis.entities, LABEL_EQUIPMENT),
         units     |-> ExportBucket(analysis.entities, LABEL_UNIT),
         modifiers |-> analysis.modifiers]]

-----------------------------------------------------------------------------
(* CostEstimationEngine (shadow_cost_testing.py); money in cents *)

\* _initialize_unit_costs(): work type -> unit costs, in the order of the
\* dict literals
unit_cost_database ==
    [concrete_work |-> <<[key |-> "concrete_per_cy", cost |-> 14500],
                         [key |-> "concrete_footing_per_lf", cost |-> 1250],
                         [key |-> "concrete_slab_per_sf", cost |-> 875],
                         [key |-> "rebar_per_lb", cost |-> 125],
                         [key |-> "formwork_per_sf", cost |-> 650]>>,
     excavation    |-> <<[key |-> "excavation_per_cy", cost |-> 850],
                         [key |-> "backfill_per_cy", cost |-> 625],
                         [key |-> "grading_per_sy", cost |-> 375],
                         [key |-> "trenching_per_lf", cost |-> 450]>>,
     framing       |-> <<[key |-> "lumber_framing_per_bf", cost |-> 285],
                         [key |-> "exterior_wall_per_sf", cost |-> 1250],
                         [key |-> "interior_wall_per_sf", cost |-> 875],
                         [key |-> "roof_framing_per_sf", cost |-> 1525]>>,
     electrical    |-> <<[key |-> "conduit_per_lf", cost |-> 850],
                         [key |-> "wire_per_lf", cost |-> 225],
                         [key |-> "outlet_installation_ea", cost |-> 12500],
                         [key |-> "panel_installation_ea", cost |-> 85000]>>,
     plumbing      |-> <<[key |-> "pipe_per_lf", cost |-> 1250],
                         [key |-> "fixture_installation_ea", cost |-> 32500],
                         [key |-> "water_line_per_lf", cost |-> 1575]>>,
     masonry       |-> <<[key |-> "brick_per_sf", cost |-> 1850],
                         [key |-> "cmu_per_sf", cost |-> 1225],
                         [key |-> "mortar_per_bag", cost |-> 850]>>,
     drywall       |-> <<[key |-> "drywall_per_sf", cost |-> 425],
                         [key |-> "tape_finish_per_sf", cost |-> 275],
                         [key |-> "texture_per_sf", cost |-> 150]>>,
     roofing       |-> <<[key |-> "shingles_per_square", cost |-> 28500],
                         [key |-> "underlayment_per_square", cost |-> 4500],
                         [key |-> "flashing_per_lf", cost |-> 850]>>,
     insulation    |-> <<[key |-> "batt_insulation_per_sf", cost |-> 285],
                         [key |-> "blown_insulation_per_sf", cost |-> 195]>>,
     flooring      |-> <<[key |-> "tile_per_sf", cost |-> 1250],
                         [key |-> "hardwood_per_sf", cost |-> 1875],
                         [key |-> "carpet_per_sf", cost |-> 625]>>]

\* _initialize_regional_multipliers(), in hundredths
regional_multipliers ==
    [urban_high |-> 125, urban_medium |-> 115, suburban |-> 100,
     rural |-> 85, remote |-> 75]

\* _initialize_equipment_rates(), per hour
equipment_rates ==
    [excavator |-> 12500, bulldozer |-> 14500, concrete_mixer |-> 8500,
     crane |-> 18500, compactor |-> 6500, forklift |-> 4500,
     skid_steer |-> 7500, dump_truck |-> 9500]

\* _initialize_crew_rates(), per hour
crew_rates ==
    [concrete_crew |-> 18500, framing_crew |-> 16500, electrical_crew |-> 22500,
     plumbing_crew |-> 19500, masonry_crew |-> 17500, drywall_crew |-> 14500,
     roofing_crew |-> 18500, excavation_crew |-> 15500,
     general_laborers |-> 12500, finish_crew |-> 16500]

\* fallback_keys of _match_unit_cost_key
fallback_keys ==
    [concrete_work |-> "concrete_per_cy", excavation |-> "excavation_per_cy",
     framing |-> "lumber_framing_per_bf", electrical |-> "conduit_per_lf",
     plumbing |-> "pipe_per_lf", masonry |-> "brick_per_sf",
     drywall |-> "drywall_per_sf", roofing |-> "shingles_per_square",
     insulation |-> "batt_insulation_per_sf", flooring |-> "tile_per_sf"]

\* the fallback unit cost 100.0, the unit cost 50.0 of a key that is
\* missing, the hours of equipment and of a crew, and the factor 1.25 of
\* overhead and profit as a divisor of an amount in hundredths of a cent
FallbackUnitCost == 10000
MissingUnitCost == 5000
EquipmentHours == 4
CrewHours == 8
OverheadDivisor == 80

\* dict.get(key, default): the default is for a missing key only, a key
\* that holds None yields None
Get(dict, key, default) == IF key \in DOMAIN dict THEN dict[key] ELSE default

\* str.replace(old, "")
RECURSIVE Remove(_, _)
Remove(s, old) ==
    IF Len(s) < Len(old) \/ Len(old) = 0 THEN s
    ELSE IF SubSeq(s, 1, Len(old)) = old
         THEN Remove(SubSeq(s, Len(old) + 1, Len(s)), old)
         ELSE SubSeq(s, 1, 1) \o Remove(SubSeq(s, 2, Len(s)), old)

\* _match_unit_cost_key(work_type, unit, unit_costs)
_match_unit_cost_key(work_type, unit, unit_costs) ==
    LET unit_lower == IF unit # None /\ unit # "" THEN Lower(unit) ELSE ""
        direct == {i \in 1..Len(unit_costs) :
                      Substring(unit_lower, Lower(unit_costs[i].key))}
    IN  IF direct # {}
        THEN unit_costs[CHOOSE i \in direct : \A j \in direct : i <= j].key
        ELSE Get(fallback_keys, work_type, unit_costs[1].key)

\* unit_costs.get(unit_cost_key, 50.0)
UnitCost(unit_costs, unit_cost_key) ==
    LET found == {i \in 1..Len(unit_costs) : unit_costs[i].key = unit_cost_key}
    IN  IF found = {} THEN MissingUnitCost
        ELSE unit_costs[CHOOSE i \in found : TRUE].cost

\* the sum of rate * 4 over the equipment whose canonical name has a rate
RECURSIVE EquipmentCost(_)
EquipmentCost(equipment) ==
    IF Len(equipment) = 0 THEN 0
    ELSE (IF Head(equipment).canonical \in DOMAIN equipment_rates
          THEN equipment_rates[Head(equipment).canonical] * EquipmentHours
          ELSE 0)
         + EquipmentCost(Tail(equipment))

RECURSIVE Pow10(_)
Pow10(k) == IF k = 0 THEN 1 ELSE 10 * Pow10(k - 1)

\* round(n / d, 0): to the nearest integer, a tie to the even one
RoundDiv(n, d) ==
    LET q == n \div d
        r == n % d
    IN  IF 2 * r > d \/ (2 * r = d /\ q % 2 = 1) THEN q + 1 ELSE q

\* the cost of estimate_cost_from_analysis for a quantity that is a number
CostOf(analysis_result, location, quantity) ==
    LET metadata == Get(analysis_result, "analysis_metadata", << >>)
        work_type == Get(metadata, "work_type", None)
        unit == Get(metadata, "primary_unit", "ea")
        known == work_type # None /\ work_type # ""
                 /\ work_type \in DOMAIN unit_cost_database
        base_unit_cost ==
            IF ~known THEN FallbackUnitCost
            ELSE UnitCost(unit_cost_database[work_type],
                     _match_unit_cost_key(work_type, unit,
                                          unit_cost_database[work_type]))
        scale == Pow10(Len(quantity.fraction))
        base_cost == base_unit_cost
                     * (quantity.units * scale + DigitsValue(quantity.fraction))
        regional_multiplier == Get(regional_multipliers, location, 100)
        alignment == Get(analysis_result, "ontology_alignment", << >>)
        equipment_cost == EquipmentCost(Get(alignment, "equipment", << >>))
        crew_key == IF work_type = None THEN None
                    ELSE Remove(work_type, "_work") \o "_crew"
        crew_cost == IF known /\ crew_key \in DOMAIN crew_rates
                     THEN crew_rates[crew_key] * CrewHours ELSE 0
    IN  RoundDiv(base_cost * regional_multiplier
                     + (equipment_cost + crew_cost) * 100 * scale,
                 OverheadDivisor * scale)

\* the quantity estimate_cost_from_analysis reads:
\* analysis_metadata.get('total_quantity', 1.0)
QuantityOf(analysis_result) ==
    Get(Get(analysis_result, "analysis_metadata", << >>), "total_quantity",
        Float(Decimal("1", "")))

\* CostEstimationEngine.estimate_cost_from_analysis(analysis_result,
\* location): 100.0 * None and base_unit_cost * None are a TypeError
estimate_cost_from_analysis(analysis_result, location) ==
    LET quantity == QuantityOf(analysis_result)
    IN  IF quantity = NoFloat
        THEN [raises |-> TRUE, cost |-> 0]
        ELSE [raises |-> FALSE,
              cost |-> CostOf(analysis_result, location, quantity[1])]

-----------------------------------------------------------------------------
(* The terms a caller adds after construction *)

\* an existing canonical name, re-added under another category and with
\* other surface forms
Pool_concrete_unit ==
    VocabularyTerm("concrete", UNIT, "Concrete by the truck load",
        {"mud"}, {"CONC"}, {}, [cubic_yards |-> 100000], EmptyDict)

\* a new term that registers surface forms a seeded term has (LIN FT, RF)
Pool_running_ft ==
    VocabularyTerm("running_ft", UNIT, "Running length in feet",
        {"run_ft"}, {"LIN FT", "RF"}, {"linear_feet"}, EmptyDict, EmptyDict)

\* a new term whose canonical name is a synonym of a seeded term
Pool_cement ==
    VocabularyTerm("cement", MATERIAL, "Portland cement",
        {"portland cement"}, {"PC"}, {"concrete"}, EmptyDict,
        [type |-> "I_II"])

\* a term added to the ontology of an extractor: a material whose surface
\* forms hold a number
Pool_grade_60_rebar ==
    VocabularyTerm("grade_60_rebar", MATERIAL, "Grade 60 reinforcing steel",
        {"grade 60"}, {"GR60"}, {"concrete"}, EmptyDict,
        [yield_ksi |-> "60"])

\* a unit that converts to a seeded unit under its canonical name
Pool_yards ==
    VocabularyTerm("yards", UNIT, "Linear measurement in yards",
        {"yard"}, {"YD"}, {"linear_feet"}, [linear_feet |-> 30000], EmptyDict)

\* a unit with no conversion of its own, to which a seeded unit converts
Pool_inches ==
    VocabularyTerm("inches", UNIT, "Linear measurement in inches",
        {"inch"}, {"IN"}, {"linear_feet"}, EmptyDict, EmptyDict)

QueryTermPool == {Pool_yards, Pool_inches}

TermPool == {Pool_concrete_unit, Pool_running_ft, Pool_cement, Seed_each}

\* the terms added in the runs that export and load
LoadTermPool == {Pool_concrete_unit, Pool_cement, Seed_each}

-----------------------------------------------------------------------------
(* The correction database (user_correction_system.py) *)

\* batch_id of a correction no batch has taken (NULL)
NoBatchId == << >>

\* create_monthly_retraining_batch returned None, or was never called
NoBatch == [batch_id |-> NoBatchId, corrections |-> {}, status |-> None]

\* an empty database, no batch, the clock at day 0
NoCorrections ==
    /\ user_corrections = << >>
    /\ retraining_batches = {}
    /\ batch = NoBatch
    /\ now = 0

\* run_shadow_tests was not called
NoShadowTests ==
    /\ historical_estimates = << >>
    /\ estimate_pos = 0
    /\ shadow_results = << >>

-----------------------------------------------------------------------------
(* The store as a state machine *)

Store ==
    [vocabulary     |-> vocabulary,
     synonym_map    |-> synonym_map,
     category_index |-> category_index]

SeededStore == AddAll(EmptyStore, SeedTerms)

\* ConstructionOntology(): the seeded store; nothing exported or loaded yet
StoreInit ==
    /\ vocabulary = SeededStore.vocabulary
    /\ synonym_map = SeededStore.synonym_map
    /\ category_index = SeededStore.category_index
    /\ log = SeedTerms
    /\ exported = export_vocabulary(EmptyStore)
    /\ loaded = EmptyStore
    /\ NoCorrections
    /\ NoShadowTests
    /\ nlp = None
    /\ self_patterns = NoPatterns
    /\ input_text = ""
    /\ is_trained = FALSE
    /\ bert_entities = << >>
    /\ doc_ents = << >>
    /\ first_tier = << >>
    /\ candidates = << >>
    /\ returned = << >>
    /\ call = NoCall
    /\ outcome = None
    /\ raised = FALSE

\* ontology.add_term(term)
AddTerm(term) ==
    /\ Len(log) < Len(SeedTerms) + MaxAdds
    /\ LET S == add_term(Store, term)
       IN  /\ vocabulary' = S.vocabulary
           /\ synonym_map' = S.synonym_map
           /\ category_index' = S.category_index
    /\ log' = Append(log, term)
    /\ UNCHANGED <<exported, loaded, correctionVars, shadowVars, extractVars>>
    /\ UNCHANGED callVars

\* ontology.save_to_json(f), then on a new ontology whose three containers
\* were cleared: load_from_json(f) (test_export_import_vocabulary).  The file
\* lists the names of a category in the iteration order of its set, which is
\* not specified.
RoundTrip ==
    /\ exported' = export_vocabulary(Store)
    /\ \E ow \in Orderings(category_index[WORK_TYPE]),
          om \in Orderings(category_index[MATERIAL]),
          ou \in Orderings(category_index[UNIT]),
          oc \in Orderings(category_index[CREW_TYPE]),
          oe \in Orderings(category_index[EQUIPMENT]) :
            loaded' = load_from_json(EmptyStore, exported', VocabularyCategory,
                        [work_type |-> ow, material |-> om, unit |-> ou,
                         crew_type |-> oc, equipment |-> oe]).store
    /\ UNCHANGED <<vocabulary, synonym_map, category_index, log, extractVars,
                   correctionVars, shadowVars>>
    /\ UNCHANGED callVars

\* the ontology under add_term calls
StoreNext == \E term \in TermPool : AddTerm(term)

Spec == StoreInit /\ [][StoreNext]_vars

\* the ontology under add_term calls, exported and loaded at any time
RoundTripNext ==
    \/ \E term \in LoadTermPool :
          Len(log) < Len(SeedTerms) + MaxLoadAdds /\ AddTerm(term)
    \/ RoundTrip

SpecRoundTrip == StoreInit /\ [][RoundTripNext]_vars

-----------------------------------------------------------------------------
(* Loading a file into the ontology *)

\* a term entry of a file, with or without its 'description'
FileEntry(term, described) ==
    LET term_data == TermData(term)
    IN  IF described THEN term_data
        ELSE [f \in (DOMAIN term_data) \ {"description"} |-> term_data[f]]

\* the orders of the top-level keys of the files; tools is the value of no
\* category
KeyOrders ==
    {<<MATERIAL, UNIT>>, <<UNIT, MATERIAL>>,
     <<MATERIAL, "tools", UNIT>>, <<"tools", MATERIAL, UNIT>>}

\* the files: two materials and a unit, each entry with or without its
\* description, in every order of the materials
Files ==
    {[data  |-> [k \in {keys[i] : i \in 1..Len(keys)} |->
                    IF k = MATERIAL
                    THEN [cement         |-> FileEntry(Pool_cement, d1),
                          grade_60_rebar |-> FileEntry(Pool_grade_60_rebar, d2)]
                    ELSE IF k = UNIT
                    THEN [running_ft |-> FileEntry(Pool_running_ft, d3)]
                    ELSE EmptyDict],
      keys  |-> keys,
      order |-> [k \in {keys[i] : i \in 1..Len(keys)} |->
                    IF k = MATERIAL THEN om
                    ELSE IF k = UNIT THEN <<"running_ft">>
                    ELSE << >>]] :
        d1 \in BOOLEAN, d2 \in BOOLEAN, d3 \in BOOLEAN, keys \in KeyOrders,
        om \in Orderings({"cement", "grade_60_rebar"})}

\* ontology.load_from_json(file)
LoadFile(file) ==
    /\ LET out == load_from_json(Store, file.data, file.keys, file.order)
       IN  /\ vocabulary' = out.store.vocabulary
           /\ synonym_map' = out.store.synonym_map
           /\ category_index' = out.store.category_index
           /\ log' = log \o out.added
           /\ raised' = out.raised
    /\ call' = [op |-> "load_from_json", args |-> <<file>>]
    /\ outcome' = None
    /\ UNCHANGED <<exported, loaded, correctionVars, shadowVars, extractVars>>

\* the ontology under add_term and load_from_json calls; an exception ends
\* the run
LoadNext ==
    /\ ~raised
    /\ Len(log) <= Len(SeedTerms) + MaxFileAdds
    /\ \/ \E term \in LoadTermPool :
             Len(log) < Len(SeedTerms) + MaxFileAdds /\ AddTerm(term)
       \/ \E file \in Files : LoadFile(file)

SpecLoad == StoreInit /\ [][LoadNext]_vars

-----------------------------------------------------------------------------
(* Queries on the ontology *)

\* the arguments of the convert_units calls
ConvertValues == {0, 100}
UnitInputs ==
    {"linear_feet", "LF", "Linear Feet", "yards", "YD", "inches", "meters",
     "bogus_unit"}

\* ontology.convert_units(value, from_unit, to_unit)
ConvertUnits(value, from_unit, to_unit) ==
    /\ call' = [op |-> "convert_units", args |-> <<value, from_unit, to_unit>>]
    /\ outcome' = convert_units(Store, value, from_unit, to_unit)
    /\ raised' = FALSE
    /\ UNCHANGED <<vocabulary, synonym_map, category_index, log, exported, loaded, correctionVars, shadowVars,
                   extractVars>>

\* ontology.get_terms_by_category(category): the list follows the iteration
\* order of a set of strings, which is not specified
GetTermsByCategory(category) ==
    /\ call' = [op |-> "get_terms_by_category", args |-> <<category>>]
    /\ \E order \in Orderings(category_index[category]) :
          outcome' = get_terms_by_category_list(Store, category, order)
    /\ raised' = FALSE
    /\ UNCHANGED <<vocabulary, synonym_map, category_index, log, exported, loaded, correctionVars, shadowVars,
                   extractVars>>

\* the ontology under add_term calls and queries
QueryNext ==
    \/ \E term \in QueryTermPool :
          Len(log) < Len(SeedTerms) + MaxQueryAdds /\ AddTerm(term)
    \/ \E value \in ConvertValues, from_unit \in UnitInputs, to_unit \in UnitInputs :
          ConvertUnits(value, from_unit, to_unit)
    \/ \E category \in Categories : GetTermsByCategory(category)

SpecQuery == StoreInit /\ [][QueryNext]_vars

-----------------------------------------------------------------------------
(* The extractors as a state machine *)

LIGHT  == "LightweightConstructionNLP"
ENGINE == "ConstructionNLPEngine"

ExtractTermPool == {Pool_grade_60_rebar}

\* the pieces the texts given to the lightweight extractor are made of
Fragments ==
    {"", "1", ",000", ".5", " ", "lf", "Grade 60", " rebar", "concrete", "pour "}

\* texts with a surface form of the term of the pool that no number overlaps
PoolTermTexts == {"GR60", "pour 1 gr60"}

\* texts with an abbreviation that two seeded terms of different categories have
SharedFormTexts == {"2 PC", "pc rf"}

LightTexts ==
    {a \o b \o c : a \in Fragments, b \in Fragments, c \in Fragments}
    \cup PoolTermTexts \cup SharedFormTexts

\* LightweightConstructionNLP(): a seeded ontology and the patterns built
\* from it; the text is the input of the extract_entities calls of the run
LightInit ==
    /\ vocabulary = SeededStore.vocabulary
    /\ synonym_map = SeededStore.synonym_map
    /\ category_index = SeededStore.category_index
    /\ log = SeedTerms
    /\ exported = export_vocabulary(EmptyStore)
    /\ loaded = EmptyStore
    /\ NoCorrections
    /\ NoShadowTests
    /\ nlp = LIGHT
    /\ self_patterns = _build_patterns(SeededStore, DictOrder(SeedTerms))
    /\ input_text \in LightTexts
    /\ is_trained = FALSE
    /\ bert_entities = << >>
    /\ doc_ents = << >>
    /\ first_tier = << >>
    /\ candidates = << >>
    /\ returned = << >>
    /\ call = NoCall
    /\ outcome = None
    /\ raised = FALSE

\* nlp.ontology.add_term(term)
OntologyAddTerm(term) ==
    /\ nlp # None
    /\ Len(log) < Len(SeedTerms) + MaxExtractAdds
    /\ LET S == add_term(Store, term)
       IN  /\ vocabulary' = S.vocabulary
           /\ synonym_map' = S.synonym_map
           /\ category_index' = S.category_index
    /\ log' = Append(log, term)
    /\ UNCHANGED <<exported, loaded, correctionVars, shadowVars, extractVars>>
    /\ UNCHANGED callVars

\* self.patterns = self._build_patterns()
BuildPatterns ==
    /\ nlp = LIGHT
    /\ self_patterns' = _build_patterns(Store, DictOrder(log))
    /\ UNCHANGED <<vocabulary, synonym_map, category_index, log, exported, loaded, correctionVars, shadowVars,
                   nlp, input_text, is_trained, bert_entities, doc_ents,
                   first_tier, candidates, returned>>
    /\ UNCHANGED callVars

\* LightweightConstructionNLP.extract_entities(text)
LightExtract ==
    /\ nlp = LIGHT
    /\ candidates' = SortByStart(LightCandidates(Store, self_patterns, input_text))
    /\ returned' = _remove_overlaps(candidates')
    /\ UNCHANGED <<vocabulary, synonym_map, category_index, log, exported, loaded, correctionVars, shadowVars,
                   nlp, self_patterns, input_text, is_trained, bert_entities,
                   doc_ents, first_tier>>
    /\ UNCHANGED callVars

\* the texts given to the combined extractor
EngineTexts == {"500", "500 sf", "1,000.5 LF", "GWB 12", "pour concrete", "Grade 60"}

\* the spans of a text that start and end at the ends of words
WordSpans(text) ==
    {sp \in [start : 0..Len(text), end : 0..Len(text)] :
        /\ sp.start < sp.end
        /\ CharAt(text, sp.start) # " " /\ CharAt(text, sp.start - 1) \in {"", " "}
        /\ CharAt(text, sp.end - 1) # " " /\ CharAt(text, sp.end) \in {"", " "}}

\* the scores and labels of the entities of the BERT model, the labels of
\* the spans of the spaCy pipeline
BertScores  == {50, 95}
BertLabels  == {LABEL_MATERIAL}
SpacyLabels == {LABEL_UNIT, QUANTITY}

\* what the token classification pipeline can return for a text after
\* offset from: entity groups one after the other
RECURSIVE BertOutputs(_, _)
BertOutputs(text, from) ==
    {<< >>} \cup
    UNION {{<<EntityExtraction(sp.start, sp.end, l,
                               SubSeq(text, sp.start + 1, sp.end), sc)>> \o rest :
                l \in BertLabels, sc \in BertScores,
                rest \in BertOutputs(text, sp.end)} :
           sp \in {w \in WordSpans(text) : w.start >= from}}

\* what doc.ents can be for a text after offset from: spans that do not
\* overlap, in the order of the text
RECURSIVE SpacyOutputs(_, _)
SpacyOutputs(text, from) ==
    {<< >>} \cup
    UNION {{<<SpacyEnt(sp.start, sp.end, l, SubSeq(text, sp.start + 1, sp.end))>>
                \o rest :
                l \in SpacyLabels, rest \in SpacyOutputs(text, sp.end)} :
           sp \in {w \in WordSpans(text) : w.start >= from}}

\* ConstructionNLPEngine(): a seeded ontology, a BERT model that is not
\* trained; the text is the input of the extract_entities calls of the run,
\* with what the two recognizers find in it
EngineInit ==
    /\ vocabulary = SeededStore.vocabulary
    /\ synonym_map = SeededStore.synonym_map
    /\ category_index = SeededStore.category_index
    /\ log = SeedTerms
    /\ exported = export_vocabulary(EmptyStore)
    /\ loaded = EmptyStore
    /\ NoCorrections
    /\ NoShadowTests
    /\ nlp = ENGINE
    /\ self_patterns = NoPatterns
    /\ input_text \in EngineTexts
    /\ is_trained = FALSE
    /\ bert_entities \in BertOutputs(input_text, 0)
    /\ doc_ents \in SpacyOutputs(input_text, 0)
    /\ first_tier = << >>
    /\ candidates = << >>
    /\ returned = << >>
    /\ call = NoCall
    /\ outcome = None
    /\ raised = FALSE

\* train_models(): self.bert_model.train(...) ends with is_trained = True
TrainModels ==
    /\ nlp = ENGINE
    /\ ~is_trained
    /\ is_trained' = TRUE
    /\ UNCHANGED <<vocabulary, synonym_map, category_index, log, exported, loaded, correctionVars, shadowVars,
                   nlp, self_patterns, input_text, bert_entities, doc_ents,
                   first_tier, candidates, returned>>
    /\ UNCHANGED callVars

\* ConstructionNLPEngine.extract_entities(text, use_bert)
EngineExtract(use_bert) ==
    /\ nlp = ENGINE
    /\ first_tier' = IF use_bert /\ is_trained THEN bert_entities ELSE << >>
    /\ returned' = engine_extract_entities(Store, input_text, use_bert,
                        is_trained, bert_entities, doc_ents)
    /\ UNCHANGED <<vocabulary, synonym_map, category_index, log, exported, loaded, correctionVars, shadowVars,
                   nlp, self_patterns, input_text, is_trained, bert_entities,
                   doc_ents, candidates>>
    /\ UNCHANGED callVars

\* one of the two extractors, its ontology under add_term calls
ExtractInit == LightInit \/ EngineInit

ExtractNext ==
    \/ \E term \in ExtractTermPool : OntologyAddTerm(term)
    \/ BuildPatterns
    \/ LightExtract
    \/ TrainModels
    \/ \E use_bert \in BOOLEAN : EngineExtract(use_bert)

SpecExtract == ExtractInit /\ [][ExtractNext]_vars

-----------------------------------------------------------------------------
(* add_term write by write, with a reader between the writes *)

MaxInterleavedAdds == 2

\* the writes of add_term in the order of its statements
add_term_steps_index_first ==
    <<"synonyms", "abbreviations", "canonical_name", "category_index", "vocabulary">>

add_term_steps ==
    <<"vocabulary", "category_index", "synonyms", "abbreviations", "canonical_name">>

\* an add_term call in progress: the term, the statement it is at and, in a
\* loop, the members of the set the loop has not visited yet
Writing(term, at, todo) == [op |-> "add_term", args |-> <<term, at, todo>>]

\* what a loop of add_term has to visit when the call reaches statement at
LoopSet(term, at) ==
    IF at > Len(add_term_steps) THEN {}
    ELSE IF add_term_steps[at] = "synonyms" THEN term.synonyms
    ELSE IF add_term_steps[at] = "abbreviations" THEN term.abbreviations
    ELSE {}

\* the call moves on to the next statement that writes; a loop over an empty
\* set writes nothing
RECURSIVE Advance(_, _)
Advance(term, at) ==
    IF at > Len(add_term_steps) THEN NoCall
    ELSE IF add_term_steps[at] \in {"synonyms", "abbreviations"} /\ LoopSet(term, at) = {}
         THEN Advance(term, at + 1)
    ELSE Writing(term, at, LoopSet(term, at))

\* the writer calls ontology.add_term(term)
BeginAddTerm(term) ==
    /\ call = NoCall
    /\ Len(log) < Len(SeedTerms) + MaxInterleavedAdds
    /\ log' = Append(log, term)
    /\ call' = Advance(term, 1)
    /\ UNCHANGED <<storeVars, exported, loaded, correctionVars, shadowVars, extractVars, outcome, raised>>

\* one write of the add_term call in progress
AddTermWrite ==
    /\ call.op = "add_term"
    /\ LET term == call.args[1]
           at   == call.args[2]
           todo == call.args[3]
           step == add_term_steps[at]
       IN  \/ /\ step = "vocabulary"
              /\ vocabulary' = Put(vocabulary, term.canonical_name, term)
              /\ call' = Advance(term, at + 1)
              /\ UNCHANGED <<synonym_map, category_index>>
           \/ /\ step = "category_index"
              /\ category_index' = [category_index EXCEPT
                                       ![term.category] = @ \cup {term.canonical_name}]
              /\ call' = Advance(term, at + 1)
              /\ UNCHANGED <<vocabulary, synonym_map>>
           \/ /\ step \in {"synonyms", "abbreviations"}
              /\ \E form \in todo :
                    /\ synonym_map' = Put(synonym_map, Lower(form), term.canonical_name)
                    /\ call' = IF todo = {form} THEN Advance(term, at + 1)
                               ELSE Writing(term, at, todo \ {form})
              /\ UNCHANGED <<vocabulary, category_index>>
           \/ /\ step = "canonical_name"
              /\ synonym_map' = Put(synonym_map, Lower(term.canonical_name),
                                    term.canonical_name)
              /\ call' = Advance(term, at + 1)
              /\ UNCHANGED <<vocabulary, category_index>>
    /\ UNCHANGED <<log, exported, loaded, correctionVars, shadowVars, extractVars, outcome, raised>>

\* the strings the reader looks up
ReaderForms == {"cement", "PC", "RF", "mud", "run_ft"}

\* the reader calls ontology.get_term(form); `returned` holds what the reader
\* got, a term or nothing
ReadTerm(form) ==
    /\ returned' = IF get_term(Store, form) = NoTerm THEN << >>
                   ELSE <<get_term(Store, form)>>
    /\ raised' = FALSE
    /\ UNCHANGED <<storeVars, log, exported, loaded, correctionVars, shadowVars,
                   nlp, self_patterns, input_text,
                   is_trained, bert_entities, doc_ents, first_tier, candidates,
                   call, outcome>>

\* the reader calls ontology.get_terms_by_category(category):
\* self.vocabulary[name] raises KeyError for a name the table does not hold
ReadCategory(category) ==
    /\ IF category_index[category] \subseteq DOMAIN vocabulary
       THEN /\ outcome' = get_terms_by_category(Store, category)
            /\ raised' = FALSE
       ELSE /\ raised' = TRUE
            /\ UNCHANGED outcome
    /\ UNCHANGED <<storeVars, log, exported, loaded, correctionVars, shadowVars, extractVars, call>>

InterleaveNext ==
    \/ \E term \in TermPool : BeginAddTerm(term)
    \/ AddTermWrite
    \/ \E form \in ReaderForms : ReadTerm(form)
    \/ \E category \in Categories : ReadCategory(category)

SpecInterleave == StoreInit /\ [][InterleaveNext]_vars

-----------------------------------------------------------------------------
(* extract_entities of the combined extractor with a BERT pipeline that can fail *)

\* ConstructionNLPEngine.extract_entities(text, use_bert); predict_raises says
\* whether the token classification pipeline raises an error for the text.
\* predict is called under `if use_bert and self.bert_model.is_trained:` and
\* nothing catches what it raises.
ExtractEntities(use_bert, predict_raises) ==
    /\ nlp = ENGINE
    /\ call' = [op |-> "extract_entities",
                args |-> <<input_text, use_bert, predict_raises>>]
    /\ IF use_bert /\ is_trained /\ predict_raises
       THEN /\ raised' = TRUE
            /\ outcome' = None
            /\ UNCHANGED <<first_tier, returned>>
       ELSE /\ raised' = FALSE
            /\ first_tier' = IF use_bert /\ is_trained THEN bert_entities ELSE << >>
            /\ returned' = engine_extract_entities(Store, input_text, use_bert,
                                is_trained, bert_entities, doc_ents)
            /\ outcome' = returned'
    /\ UNCHANGED <<vocabulary, synonym_map, category_index, log, exported, loaded, correctionVars, shadowVars,
                   nlp, self_patterns, input_text, is_trained, bert_entities,
                   doc_ents, candidates>>

DegradeNext ==
    \/ TrainModels
    \/ \E use_bert \in BOOLEAN, predict_raises \in BOOLEAN :
          ExtractEntities(use_bert, predict_raises)

SpecDegrade == EngineInit /\ [][DegradeNext]_vars

-----------------------------------------------------------------------------
(* Analysis as a state machine *)

ScenarioText == "Excavate 25 cubic yards of soil for foundation using track hoe"

\* texts with the keywords of several work types, of one and of none
WorkTypeTexts ==
    {ScenarioText, "Excavate 25 cubic yards", "Frame exterior walls",
     "Install electrical conduit", "Run plumbing pipe", "Hang sheetrock on studs",
     "tile roof over concrete slab", "Paint trim", "FLOORING and Insulation"}

AnalyzeLightTexts == LightTexts \cup WorkTypeTexts

AnalyzeEngineTexts == {"500 sf", "Pour concrete", "GWB", "500"}

\* LightweightConstructionNLP() and the text of the calls of the run
AnalyzeLightInit ==
    /\ vocabulary = SeededStore.vocabulary
    /\ synonym_map = SeededStore.synonym_map
    /\ category_index = SeededStore.category_index
    /\ log = SeedTerms
    /\ exported = export_vocabulary(EmptyStore)
    /\ loaded = EmptyStore
    /\ NoCorrections
    /\ NoShadowTests
    /\ nlp = LIGHT
    /\ self_patterns = _build_patterns(SeededStore, DictOrder(SeedTerms))
    /\ input_text \in AnalyzeLightTexts
    /\ is_trained = FALSE
    /\ bert_entities = << >>
    /\ doc_ents = << >>
    /\ first_tier = << >>
    /\ candidates = << >>
    /\ returned = << >>
    /\ call = NoCall
    /\ outcome = None
    /\ raised = FALSE

\* ConstructionNLPEngine() and the text of the calls of the run, with what
\* the two recognizers find in it
AnalyzeEngineInit ==
    /\ vocabulary = SeededStore.vocabulary
    /\ synonym_map = SeededStore.synonym_map
    /\ category_index = SeededStore.category_index
    /\ log = SeedTerms
    /\ exported = export_vocabulary(EmptyStore)
    /\ loaded = EmptyStore
    /\ NoCorrections
    /\ NoShadowTests
    /\ nlp = ENGINE
    /\ self_patterns = NoPatterns
    /\ input_text \in AnalyzeEngineTexts
    /\ is_trained = FALSE
    /\ bert_entities \in BertOutputs(input_text, 0)
    /\ doc_ents \in SpacyOutputs(input_text, 0)
    /\ first_tier = << >>
    /\ candidates = << >>
    /\ returned = << >>
    /\ call = NoCall
    /\ outcome = None
    /\ raised = FALSE

\* the words of a text, in order
RECURSIVE Words(_, _)
Words(text, from) ==
    LET starts == {sp.start : sp \in {w \in WordSpans(text) : w.start >= from}}
    IN  IF starts = {} THEN << >>
        ELSE LET s0 == CHOOSE x \in starts : \A y \in starts : x <= y
                 e0 == CHOOSE e \in (s0 + 1)..Len(text) :
                          /\ [start |-> s0, end |-> e] \in WordSpans(text)
                          /\ \A k \in (s0 + 1)..e : CharAt(text, k - 1) # " "
             IN  <<SubSeq(text, s0 + 1, e0)>> \o Words(text, e0)

\* the part of speech and the dependency the parser can give a token
TokenTags == {<<"VERB", "ROOT">>, <<"VERB", "amod">>, <<"NOUN", "ROOT">>}

\* what the tokens of self.spacy_nlp(text) can be: a token for each word,
\* its lemma the word in lower case
RECURSIVE TokenOutputs(_)
TokenOutputs(words) ==
    IF Len(words) = 0 THEN {<< >>}
    ELSE {<<Token(tag[1], tag[2], Lower(Head(words)))>> \o rest :
            tag \in TokenTags, rest \in TokenOutputs(Tail(words))}

\* nlp._determine_work_type(text)
DetermineWorkType ==
    /\ nlp # None
    /\ call' = [op |-> "_determine_work_type", args |-> <<input_text>>]
    /\ outcome' = _determine_work_type(input_text)
    /\ raised' = FALSE
    /\ UNCHANGED <<vocabulary, synonym_map, category_index, log, exported, loaded, correctionVars, shadowVars,
                   extractVars>>

\* an analyze_construction_scope of the lightweight extractor that computes
\* the work type on the first call and keeps it for the calls after it
LightAnalyze_work_type_kept ==
    /\ nlp = LIGHT
    /\ candidates' = SortByStart(LightCandidates(Store, self_patterns, input_text))
    /\ returned' = _remove_overlaps(candidates')
    /\ call' = [op |-> "analyze_construction_scope", args |-> <<input_text>>]
    /\ outcome' = [light_analyze_construction_scope(input_text, returned')
                      EXCEPT !.work_type =
                          IF call.op = "analyze_construction_scope"
                          THEN outcome.work_type ELSE @]
    /\ raised' = FALSE
    /\ UNCHANGED <<vocabulary, synonym_map, category_index, log, exported, loaded, correctionVars, shadowVars,
                   nlp, self_patterns, input_text, is_trained, bert_entities,
                   doc_ents, first_tier>>

\* LightweightConstructionNLP.analyze_construction_scope(text)
LightAnalyze ==
    /\ nlp = LIGHT
    /\ candidates' = SortByStart(LightCandidates(Store, self_patterns, input_text))
    /\ returned' = _remove_overlaps(candidates')
    /\ call' = [op |-> "analyze_construction_scope", args |-> <<input_text>>]
    /\ outcome' = light_analyze_construction_scope(input_text, returned')
    /\ raised' = FALSE
    /\ UNCHANGED <<vocabulary, synonym_map, category_index, log, exported, loaded, correctionVars, shadowVars,
                   nlp, self_patterns, input_text, is_trained, bert_entities,
                   doc_ents, first_tier>>

\* ConstructionNLPEngine.analyze_construction_scope(text), doc being the
\* tokens of the doc _extract_operation reads
EngineAnalyze(doc) ==
    /\ nlp = ENGINE
    /\ first_tier' = IF is_trained THEN bert_entities ELSE << >>
    /\ returned' = engine_extract_entities(Store, input_text, TRUE,
                        is_trained, bert_entities, doc_ents)
    /\ call' = [op |-> "analyze_construction_scope", args |-> <<input_text, doc>>]
    /\ outcome' = engine_analyze_construction_scope(input_text, returned', doc)
    /\ raised' = FALSE
    /\ UNCHANGED <<vocabulary, synonym_map, category_index, log, exported, loaded, correctionVars, shadowVars,
                   nlp, self_patterns, input_text, is_trained, bert_entities,
                   doc_ents, candidates>>

\* ConstructionNLPEngine.export_structured_output(analysis) for the analysis
\* the call before returned
EngineExport ==
    /\ nlp = ENGINE
    /\ call.op = "analyze_construction_scope"
    /\ call' = [op |-> "export_structured_output", args |-> <<outcome>>]
    /\ outcome' = engine_export_structured_output(outcome)
    /\ raised' = FALSE
    /\ UNCHANGED <<vocabulary, synonym_map, category_index, log, exported, loaded, correctionVars, shadowVars,
                   extractVars>>

\* one of the two extractors under analysis calls
AnalyzeInit == AnalyzeLightInit \/ AnalyzeEngineInit

AnalyzeNext ==
    \/ DetermineWorkType
    \/ LightAnalyze
    \/ TrainModels
    \/ EngineExport
    \/ /\ nlp = ENGINE
       /\ \E doc \in TokenOutputs(Words(input_text, 0)) : EngineAnalyze(doc)

SpecAnalyze == AnalyzeInit /\ [][AnalyzeNext]_vars

-----------------------------------------------------------------------------
(* Analysis calls on one extractor, text after text *)

\* the texts of the calls
PurityLightTexts == {"pour concrete", "concrete", "1 lf", "Frame exterior walls", "Paint trim"}
PurityEngineTexts == {"GWB", "500"}

\* an extractor and the text of its first call
PurityInit ==
    /\ AnalyzeLightInit \/ AnalyzeEngineInit
    /\ input_text \in (IF nlp = LIGHT THEN PurityLightTexts ELSE PurityEngineTexts)

\* the caller takes another text for the calls that follow; the recognizers
\* of the combined extractor find in it what they find
ChooseText(text) ==
    /\ text # input_text
    /\ input_text' = text
    /\ IF nlp = ENGINE
       THEN /\ text \in PurityEngineTexts
            /\ bert_entities' \in BertOutputs(text, 0)
            /\ doc_ents' \in SpacyOutputs(text, 0)
       ELSE /\ text \in PurityLightTexts
            /\ UNCHANGED <<bert_entities, doc_ents>>
    /\ UNCHANGED <<vocabulary, synonym_map, category_index, log, exported, loaded, correctionVars, shadowVars,
                   nlp, self_patterns, is_trained, first_tier, candidates, returned>>
    /\ UNCHANGED callVars

PurityNext ==
    \/ \E text \in PurityLightTexts \cup PurityEngineTexts : ChooseText(text)
    \/ DetermineWorkType
    \/ LightAnalyze
    \/ TrainModels
    \/ EngineExport
    \/ /\ nlp = ENGINE
       /\ \E doc \in TokenOutputs(Words(input_text, 0)) : EngineAnalyze(doc)

SpecPurity == PurityInit /\ [][PurityNext]_vars

\* _remove_overlaps called with a list of candidates of the caller's own:
\* candidates over the offsets 0..MaxPos, told apart by their texts
SweepSpans == {sp \in [start : 0..MaxPos, end : 0..MaxPos] : sp.start < sp.end}

SweepLabel(confidence) ==
    IF confidence = 90 THEN QUANTITY
    ELSE IF confidence = 85 THEN LABEL_UNIT
    ELSE LABEL_MATERIAL

\* the confidences extract_entities gives its candidates
SweepConfidences == {80, 85, 90}

CandidateNames == <<"a", "b", "c", "d", "e", "f">>

\* the start-sorted lists of n candidates whose starts are at least from,
\* the first of them named CandidateNames[k], with confidences of a set
RECURSIVE CandidateLists(_, _, _, _)
CandidateLists(n, k, from, confidences) ==
    IF n = 0 THEN {<< >>}
    ELSE UNION {{<<EntityExtraction(sp.start, sp.end, SweepLabel(c),
                                    CandidateNames[k], c)>> \o rest :
                    c \in confidences,
                    rest \in CandidateLists(n - 1, k + 1, sp.start, confidences)} :
                sp \in {x \in SweepSpans : x.start >= from}}

SweepInit ==
    /\ vocabulary = SeededStore.vocabulary
    /\ synonym_map = SeededStore.synonym_map
    /\ category_index = SeededStore.category_index
    /\ log = SeedTerms
    /\ exported = export_vocabulary(EmptyStore)
    /\ loaded = EmptyStore
    /\ NoCorrections
    /\ NoShadowTests
    /\ nlp = LIGHT
    /\ self_patterns = _build_patterns(SeededStore, DictOrder(SeedTerms))
    /\ input_text = ""
    /\ is_trained = FALSE
    /\ bert_entities = << >>
    /\ doc_ents = << >>
    /\ first_tier = << >>
    /\ \E n \in 0..Min(MaxCandidates, Len(CandidateNames)) :
          candidates \in CandidateLists(n, 1, 0, {80, 90})
    /\ returned = << >>
    /\ call = NoCall
    /\ outcome = None
    /\ raised = FALSE

\* nlp._remove_overlaps(candidates)
Sweep ==
    /\ nlp = LIGHT
    /\ returned' = _remove_overlaps(candidates)
    /\ UNCHANGED <<vocabulary, synonym_map, category_index, log, exported, loaded, correctionVars, shadowVars,
                   nlp, self_patterns, input_text, is_trained, bert_entities,
                   doc_ents, first_tier, candidates>>
    /\ UNCHANGED callVars

SpecSweep == SweepInit /\ [][Sweep]_vars

\* _remove_overlaps called with a list of up to three candidates of any of
\* the confidences
ChainNames == <<"a", "b", "c">>

ChainInit ==
    /\ vocabulary = SeededStore.vocabulary
    /\ synonym_map = SeededStore.synonym_map
    /\ category_index = SeededStore.category_index
    /\ log = SeedTerms
    /\ exported = export_vocabulary(EmptyStore)
    /\ loaded = EmptyStore
    /\ NoCorrections
    /\ NoShadowTests
    /\ nlp = LIGHT
    /\ self_patterns = _build_patterns(SeededStore, DictOrder(SeedTerms))
    /\ input_text = ""
    /\ is_trained = FALSE
    /\ bert_entities = << >>
    /\ doc_ents = << >>
    /\ first_tier = << >>
    /\ \E n \in 0..Len(ChainNames) :
          candidates \in CandidateLists(n, 1, 0, SweepConfidences)
    /\ returned = << >>
    /\ call = NoCall
    /\ outcome = None
    /\ raised = FALSE

SpecChain == ChainInit /\ [][Sweep]_vars

-----------------------------------------------------------------------------
(* Corrections and their monthly retraining *)

\* the corrections stored, the days the clock reaches, and the length of a
\* clock step
MaxCorrections == 12
MaxNow == 62
TickDays == 31

\* timedelta(days=30), the minimum threshold of a batch, limit=10000, and
\* the days of a month of strftime('%Y_%m')
RecentDays == 30
MinimumThreshold == 10
RetrainingLimit == 10000
MonthDays == 31

\* the row store_correction inserts: processed defaults to FALSE, batch_id
\* to NULL
CorrectionRow(timestamp) ==
    [timestamp |-> timestamp, processed |-> FALSE, batch_id |-> NoBatchId]

\* f"batch_{datetime.now().strftime('%Y_%m')}"
BatchId(day) == <<"batch", day \div MonthDays>>

\* SELECT ... WHERE processed = FALSE ORDER BY timestamp DESC LIMIT ?
get_corrections_for_retraining(table, limit) ==
    LET unprocessed == {id \in DOMAIN table : ~table[id].processed}
    IN  IF Cardinality(unprocessed) <= limit
        THEN unprocessed
        ELSE CHOOSE newest \in SUBSET unprocessed :
                 /\ Cardinality(newest) = limit
                 /\ \A a \in newest, b \in unprocessed \ newest :
                        table[a].timestamp >= table[b].timestamp

\* UPDATE ... SET processed = TRUE, batch_id = ? WHERE correction_id IN (...)
mark_corrections_processed(table, correction_ids, batch_id) ==
    [id \in DOMAIN table |->
        IF id \in correction_ids
        THEN [table[id] EXCEPT !.processed = TRUE, !.batch_id = batch_id]
        ELSE table[id]]

\* the corrections of the last 30 days among those fetched
recent_corrections(table, day) ==
    {id \in get_corrections_for_retraining(table, RetrainingLimit) :
        table[id].timestamp >= day - RecentDays}

\* CorrectionDatabase.store_correction(correction): the collector gives
\* every correction a new uuid4 id and the timestamp datetime.now()
StoreCorrection ==
    /\ Len(user_corrections) < MaxCorrections
    /\ user_corrections' = Append(user_corrections, CorrectionRow(now))
    /\ UNCHANGED <<retraining_batches, batch, now>>
    /\ UNCHANGED <<storeVars, log, exported, loaded, extractVars, callVars, shadowVars>>

\* ModelRetrainer.create_monthly_retraining_batch(), the first half of a run
CreateMonthlyRetrainingBatch ==
    /\ batch.status # "pending"
    /\ LET recent == recent_corrections(user_corrections, now)
       IN  IF \/ get_corrections_for_retraining(user_corrections, RetrainingLimit) = {}
              \/ Cardinality(recent) < MinimumThreshold
           THEN /\ batch' = NoBatch
                /\ UNCHANGED retraining_batches
           ELSE /\ batch' = [batch_id |-> BatchId(now), corrections |-> recent,
                             status |-> "pending"]
                /\ retraining_batches' = retraining_batches \cup {BatchId(now)}
    /\ UNCHANGED <<user_corrections, now>>
    /\ UNCHANGED <<storeVars, log, exported, loaded, extractVars, callVars, shadowVars>>

\* ModelRetrainer.execute_retraining(batch) when nothing in it raises, the
\* second half of a run
ExecuteRetraining ==
    /\ batch.status = "pending"
    /\ user_corrections' =
           mark_corrections_processed(user_corrections, batch.corrections,
                                      batch.batch_id)
    /\ batch' = [batch EXCEPT !.status = "completed"]
    /\ UNCHANGED <<retraining_batches, now>>
    /\ UNCHANGED <<storeVars, log, exported, loaded, extractVars, callVars, shadowVars>>

\* time passes
Tick ==
    /\ now + TickDays <= MaxNow
    /\ now' = now + TickDays
    /\ UNCHANGED <<user_corrections, retraining_batches, batch>>
    /\ UNCHANGED <<storeVars, log, exported, loaded, extractVars, callVars, shadowVars>>

RetrainNext ==
    \/ StoreCorrection
    \/ CreateMonthlyRetrainingBatch
    \/ ExecuteRetraining
    \/ Tick

SpecRetrain == StoreInit /\ [][RetrainNext]_vars

\* the runs of the retrainer are repeated for ever
SpecRetrainFair ==
    /\ SpecRetrain
    /\ WF_vars(CreateMonthlyRetrainingBatch)
    /\ WF_vars(ExecuteRetraining)

-----------------------------------------------------------------------------
(* Shadow tests: historical estimates replayed through the engine *)

\* the estimates of a run by their ids, their scope texts, locations and
\* original costs
EstimateIds == <<"EST_0001", "EST_0002">>
ShadowTexts == {"Pour", "GWB", "2", "Pour 2"}
ShadowLocations == {"suburban", "rural"}
OriginalCosts == {221250}

\* self.variance_target = 0.05, in hundredths
VarianceTarget == 5

\* the fields of a HistoricalEstimate that run_shadow_tests reads
HistoricalEstimate(estimate_id, scope_text, original_cost, location) ==
    [estimate_id |-> estimate_id, scope_text |-> scope_text,
     original_cost |-> original_cost, location |-> location]

\* the lists of n estimates that follow the first k
RECURSIVE EstimateLists(_, _)
EstimateLists(n, k) ==
    IF n = 0 THEN {<< >>}
    ELSE {<<HistoricalEstimate(EstimateIds[k + 1], text, cost, location)>> \o rest :
             text \in ShadowTexts, cost \in OriginalCosts,
             location \in ShadowLocations, rest \in EstimateLists(n - 1, k + 1)}

\* the ShadowTestResult of an estimate; variance_percentage is compared
\* with the target without the division
ShadowTestResult(estimate, shadow_cost, analysis, structured_output) ==
    LET variance_amount == shadow_cost - estimate.original_cost
        magnitude == IF variance_amount < 0 THEN 0 - variance_amount
                     ELSE variance_amount
    IN  [estimate_id |-> estimate.estimate_id,
         original_cost |-> estimate.original_cost,
         shadow_cost |-> shadow_cost,
         variance_amount |-> variance_amount,
         within_target |-> IF estimate.original_cost > 0
                           THEN magnitude * 100 <= VarianceTarget * estimate.original_cost
                           ELSE TRUE,
         confidence_score |-> analysis.confidence_score,
         analysis_metadata |-> Get(structured_output, "analysis_metadata", << >>)]

\* ShadowTesting() and the list given to run_shadow_tests: a new engine with
\* a seeded ontology and a BERT model that is not trained
ShadowInit ==
    /\ vocabulary = SeededStore.vocabulary
    /\ synonym_map = SeededStore.synonym_map
    /\ category_index = SeededStore.category_index
    /\ log = SeedTerms
    /\ exported = export_vocabulary(EmptyStore)
    /\ loaded = EmptyStore
    /\ NoCorrections
    /\ \E n \in 1..Len(EstimateIds) : historical_estimates \in EstimateLists(n, 0)
    /\ estimate_pos = 0
    /\ shadow_results = << >>
    /\ nlp = ENGINE
    /\ self_patterns = NoPatterns
    /\ input_text = ""
    /\ is_trained = FALSE
    /\ bert_entities = << >>
    /\ doc_ents = << >>
    /\ first_tier = << >>
    /\ candidates = << >>
    /\ returned = << >>
    /\ call = NoCall
    /\ outcome = NoFloat
    /\ raised = FALSE

\* one pass of the loop of run_shadow_tests: the estimate is analysed,
\* exported and priced; an exception is logged and the estimate skipped.
\* ents and doc are what the spaCy pipeline finds in the scope text.
ShadowIteration(ents, doc) ==
    /\ nlp = ENGINE
    /\ estimate_pos < Len(historical_estimates)
    /\ LET estimate == historical_estimates[estimate_pos + 1]
           entities == engine_extract_entities(Store, estimate.scope_text, TRUE,
                           is_trained, bert_entities, ents)
           analysis == engine_analyze_construction_scope(estimate.scope_text,
                           entities, doc)
           structured_output == engine_export_structured_output(analysis)
           shadow_cost == estimate_cost_from_analysis(structured_output,
                                                      estimate.location)
       IN  /\ input_text' = estimate.scope_text
           /\ doc_ents' = ents
           /\ returned' = entities
           /\ call' = [op |-> "estimate_cost_from_analysis",
                       args |-> <<structured_output, estimate.location>>]
           /\ raised' = shadow_cost.raises
           /\ outcome' = IF shadow_cost.raises THEN NoFloat
                         ELSE Float(shadow_cost.cost)
           /\ shadow_results' =
                  IF shadow_cost.raises THEN shadow_results
                  ELSE Append(shadow_results,
                           ShadowTestResult(estimate, shadow_cost.cost, analysis,
                                            structured_output))
    /\ estimate_pos' = estimate_pos + 1
    /\ UNCHANGED historical_estimates
    /\ UNCHANGED <<storeVars, log, exported, loaded, correctionVars, nlp,
                   self_patterns, is_trained, bert_entities, first_tier,
                   candidates>>

ShadowNext ==
    /\ nlp = ENGINE
    /\ estimate_pos < Len(historical_estimates)
    /\ \E ents \in SpacyOutputs(historical_estimates[estimate_pos + 1].scope_text, 0) :
       \E doc \in TokenOutputs(Words(historical_estimates[estimate_pos + 1].scope_text, 0)) :
           ShadowIteration(ents, doc)

SpecShadow == ShadowInit /\ [][ShadowNext]_vars

-----------------------------------------------------------------------------
(* Properties of the store *)

\* the surface forms of a term
SurfaceForms(term) ==
    term.synonyms \cup term.abbreviations \cup {term.canonical_name}

\* a string in other letter cases and with spaces and underscores interchanged
Variants(s) ==
    LET cases == {s, Lower(s), Upper(s)}
    IN  cases \cup {Replace(c, " ", "_") : c \in cases}
              \cup {Replace(c, "_", " ") : c \in cases}

\* the positions of the calls in the log that registered key
RegisteredAt(key) == {i \in 1..Len(log) : key \in RegisteredKeys(log[i])}

\* the keys some call of the log registered
AllRegisteredKeys == UNION {RegisteredKeys(log[i]) : i \in 1..Len(log)}

Max(set) == CHOOSE x \in set : \A y \in set : y <= x

HasSpace(s) == \E i \in 1..Len(s) : Ch(s, i) = " "

\* C1 (as claimed): every surface form of every term of the store, in any
\* letter case and with spaces and underscores interchanged, normalizes to the
\* canonical name of that term.
C1_NormalizationTotality ==
    \A name \in DOMAIN vocabulary :
        \A form \in SurfaceForms(vocabulary[name]) :
            \A v \in Variants(form) :
                normalize_term(Store, v) = vocabulary[name].canonical_name

\* C7: an add_term call that repeats the call before it leaves the vocabulary
\* table, the synonym index and the category index as they are.
C7_AddTermIdempotent ==
    [][(/\ Len(log') = Len(log) + 1
        /\ log'[Len(log')] = log[Len(log)])
       => storeVars' = storeVars]_vars

\* C7 witness: a term was added twice in a row after construction
C7_Witness ==
    /\ Len(log) >= Len(SeedTerms) + 2
    /\ log[Len(log)] = log[Len(log) - 1]

\* C8 (as claimed): every canonical name is in exactly one category set, the
\* one of its current term's category, and get_terms_by_category(c) returns
\* exactly the terms whose category is c.
C8_CategoryConsistency ==
    /\ \A name \in DOMAIN vocabulary :
          \A c \in Categories :
              name \in category_index[c] <=> vocabulary[name].category = c
    /\ \A c \in Categories :
          get_terms_by_category(Store, c) =
              {vocabulary[name] : name \in {n \in DOMAIN vocabulary :
                                                vocabulary[n].category = c}}

\* C9 (as claimed): a case-folded surface form that several distinct terms
\* registered normalizes to the canonical name of the one added last.
C9_LastRegistrationWins ==
    \A key \in AllRegisteredKeys :
        Cardinality({log[i] : i \in RegisteredAt(key)}) > 1
            => normalize_term(Store, key) = log[Max(RegisteredAt(key))].canonical_name

\* C10: the export of the store loaded from an export equals that export.
C10_RoundTrip == export_vocabulary(loaded) = exported

\* C10 witness: a store reached by add_term calls, one of which re-added a
\* canonical name under another category, was exported and loaded
C10_Witness ==
    /\ loaded # EmptyStore
    /\ \E c \in Categories : \E d \in Categories \ {c} :
          (DOMAIN exported[c]) \cap (DOMAIN exported[d]) # {}

-----------------------------------------------------------------------------
(* Properties of the extractors *)

\* the [start, end) ranges of two entities overlap
Overlap(a, b) == a.start < b.end /\ b.start < a.end

NonOverlapping(es) ==
    \A i \in 1..Len(es) : \A j \in 1..Len(es) :
        i < j => ~Overlap(es[i], es[j])

SortedByStart(es) ==
    \A i \in 1..(Len(es) - 1) : es[i].start <= es[i + 1].start

Contains(es, x) == \E k \in 1..Len(es) : es[k] = x

\* an entity of this range, label and confidence is in the list
Kept(es, x) ==
    \E k \in 1..Len(es) :
        /\ es[k].start = x.start /\ es[k].end = x.end
        /\ es[k].label = x.label /\ es[k].confidence = x.confidence

\* candidates i and j of the list overlap, and no other candidate of the
\* list overlaps either of them
IsolatedPair(es, i, j) ==
    /\ Overlap(es[i], es[j])
    /\ \A k \in (1..Len(es)) \ {i, j} :
          ~Overlap(es[k], es[i]) /\ ~Overlap(es[k], es[j])

\* the sweep replaced a retained candidate of the list by a later one of
\* higher confidence, which the result holds
Replaced(cands, result) ==
    \E i \in 1..Len(cands) : \E j \in 1..Len(cands) :
        /\ i < j
        /\ Overlap(cands[i], cands[j])
        /\ cands[j].confidence > cands[i].confidence
        /\ Contains(result, cands[j])
        /\ ~Contains(result, cands[i])

\* C2: no two entities of the list LightweightConstructionNLP.extract_entities
\* returns have overlapping [start, end) ranges, for every text and every
\* vocabulary of the model.
C2_LightNonOverlap == nlp = LIGHT => NonOverlapping(returned)

\* C2 witness: the lightweight extractor found overlapping candidates,
\* dropped some of them and returned several entities
C2_Witness ==
    /\ nlp = LIGHT
    /\ ~NonOverlapping(candidates)
    /\ Len(returned) >= 2
    /\ Len(returned) < Len(candidates)

\* C3 (as claimed): no two entities of the list
\* ConstructionNLPEngine.extract_entities returns have overlapping
\* [start, end) ranges, whatever the BERT model, the spaCy pipeline and the
\* quantity pattern find.
C3_EngineNonOverlap == nlp = ENGINE => NonOverlapping(returned)

\* C4: when _remove_overlaps is given a start-sorted list in which candidates
\* a (earlier) and b overlap and neither overlaps another candidate, its
\* result holds b and not a if b.confidence > a.confidence, and a and not b
\* otherwise.
C4_TwoSpanConflict ==
    Len(returned) > 0 =>
        \A i \in 1..Len(candidates) : \A j \in 1..Len(candidates) :
            (i < j /\ IsolatedPair(candidates, i, j)) =>
                IF candidates[j].confidence > candidates[i].confidence
                THEN /\ Contains(returned, candidates[j])
                     /\ ~Contains(returned, candidates[i])
                ELSE /\ Contains(returned, candidates[i])
                     /\ ~Contains(returned, candidates[j])

\* C4 witness: _remove_overlaps returned from a list of three candidates, two
\* of which overlap only each other, the later one with the higher confidence
C4_Witness ==
    /\ Len(returned) > 0
    /\ Len(candidates) >= 3
    /\ \E i \in 1..Len(candidates) : \E j \in 1..Len(candidates) :
          /\ i < j
          /\ IsolatedPair(candidates, i, j)
          /\ candidates[j].confidence > candidates[i].confidence

\* the rule-based candidates of the combined extractor for the text: the
\* spans of the spaCy pipeline at confidence 0.8, the quantity matches at 0.9
RuleCandidates ==
    [i \in 1..Len(doc_ents) |->
        EntityExtraction(doc_ents[i].start_char, doc_ents[i].end_char,
                         doc_ents[i].label_, doc_ents[i].text, 80)]
    \o _extract_quantities(input_text)

\* C5 (as claimed): when an entity the last extract_entities call of the
\* combined extractor took from the BERT model and a rule-based candidate
\* overlap, and overlap no other candidate, the result holds only the one of
\* higher confidence, the BERT entity on equal confidence.
C5_MergeByConfidence ==
    LET all == first_tier \o RuleCandidates
    IN  \A i \in 1..Len(first_tier) :
            \A j \in (Len(first_tier) + 1)..Len(all) :
                IsolatedPair(all, i, j) =>
                    IF all[j].confidence > all[i].confidence
                    THEN Kept(returned, all[j]) /\ ~Kept(returned, all[i])
                    ELSE Kept(returned, all[i]) /\ ~Kept(returned, all[j])

\* C6: the list extract_entities returns, of either extractor, is in
\* non-decreasing order of start, also when the overlap sweep has replaced a
\* retained entity.
C6_SortedByStart == SortedByStart(returned)

\* C6 witness: the sweep of the lightweight extractor replaced a retained
\* entity by one that starts after it, and the call returned several entities
C6_Witness ==
    /\ nlp = LIGHT
    /\ Replaced(candidates, returned)
    /\ Len(returned) >= 2
    /\ \E k \in 1..(Len(returned) - 1) : returned[k].start < returned[k + 1].start

-----------------------------------------------------------------------------
(* Properties of loading, conversion and listing *)

\* C11 (as claimed): a load_from_json call that ends in an exception leaves
\* the vocabulary table, the synonym index and the category index as they
\* were before the call, wherever the malformed entry is in the data.
C11_AtomicLoadFailure ==
    [][(raised' /\ ~raised) => storeVars' = storeVars]_vars

\* the factor convert_units is claimed to apply: the one the conversion table
\* of the term of from_unit holds under to_unit verbatim or, failing that,
\* under normalize_term(to_unit); no factor in every other case
DirectFactor(from_unit, to_unit) ==
    LET from_term == get_term(Store, from_unit)
        to_canonical == normalize_term(Store, to_unit)
    IN  IF from_term = NoTerm THEN NoFloat
        ELSE IF to_unit \in DOMAIN from_term.unit_conversions
        THEN Float(from_term.unit_conversions[to_unit])
        ELSE IF to_canonical \in DOMAIN from_term.unit_conversions
        THEN Float(from_term.unit_conversions[to_canonical])
        ELSE NoFloat

\* C12: a convert_units call returns value times the direct factor when
\* there is one and None in every other case, raises nothing and leaves the
\* store as it is.
C12_DirectFactorConversion ==
    [][(log' = log /\ call'.op = "convert_units") =>
          /\ ~raised'
          /\ outcome' = IF DirectFactor(call'.args[2], call'.args[3]) = NoFloat
                        THEN NoFloat
                        ELSE Float(call'.args[1]
                                   * DirectFactor(call'.args[2], call'.args[3])[1])
          /\ storeVars' = storeVars]_vars

\* C12 witness: a conversion returned a value other than 0 through the
\* factor held under the normalized name of to_unit
C12_Witness ==
    /\ call.op = "convert_units"
    /\ outcome # NoFloat
    /\ outcome[1] # 0
    /\ call.args[3] \notin DOMAIN get_term(Store, call.args[2]).unit_conversions

\* the characters of canonical names in the order of their code points
CodePointOrder == "0123456789ABCDEFGHIJKLMNOPQRSTUVWXYZ_abcdefghijklmnopqrstuvwxyz"

CodePointRank(c) ==
    CHOOSE i \in 1..Len(CodePointOrder) : Ch(CodePointOrder, i) = c

\* a < b for strings, character by character
RECURSIVE StrLess(_, _)
StrLess(a, b) ==
    IF Len(b) = 0 THEN FALSE
    ELSE IF Len(a) = 0 THEN TRUE
    ELSE IF Ch(a, 1) = Ch(b, 1)
         THEN StrLess(SubSeq(a, 2, Len(a)), SubSeq(b, 2, Len(b)))
         ELSE CodePointRank(Ch(a, 1)) < CodePointRank(Ch(b, 1))

\* C13 (as claimed): the list get_terms_by_category returns is in ascending
\* order of canonical_name.
C13_SortedCategoryListing ==
    call.op = "get_terms_by_category" =>
        \A i \in 1..(Len(outcome) - 1) :
            StrLess(outcome[i].canonical_name, outcome[i + 1].canonical_name)

\* the order of the work types
WorkTypeOrder ==
    <<"concrete_work", "excavation", "framing", "electrical", "plumbing",
      "roofing", "masonry", "drywall", "insulation", "flooring">>

\* the places in the order of the work types with a keyword in the text
MatchingWorkTypes(text) ==
    {k \in 1..Len(WorkTypeOrder) :
        \E e \in 1..Len(work_type_keywords) :
            /\ work_type_keywords[e].work_type = WorkTypeOrder[k]
            /\ \E j \in 1..Len(work_type_keywords[e].keywords) :
                  Substring(work_type_keywords[e].keywords[j], Lower(text))}

FirstWorkType(text) ==
    IF MatchingWorkTypes(text) = {} THEN None
    ELSE WorkTypeOrder[CHOOSE k \in MatchingWorkTypes(text) :
                          \A h \in MatchingWorkTypes(text) : k <= h]

\* C14: _determine_work_type returns the first work type, in the order
\* concrete_work, excavation, framing, electrical, plumbing, roofing, masonry,
\* drywall, insulation, flooring, with a keyword that is a substring of the
\* text in lower case, and None when no work type has one.
C14_FirstMatchWorkType ==
    call.op = "_determine_work_type" => outcome = FirstWorkType(call.args[1])

\* C14 witness: a call on a text with keywords of two work types or more
\* returned the first of them
C14_Witness ==
    /\ call.op = "_determine_work_type"
    /\ Cardinality(MatchingWorkTypes(call.args[1])) >= 2
    /\ outcome = FirstWorkType(call.args[1])

\* C15 (as claimed): the analysis of "Excavate 25 cubic yards of soil for
\* foundation using track hoe" has the work type "excavation".
C15_ScenarioWorkType ==
    (call.op = "analyze_construction_scope" /\ call.args[1] = ScenarioText) =>
        outcome.work_type = "excavation"

\* the places of the entities of a label
Places(entities, label) == {i \in 1..Len(entities) : entities[i].label = label}

\* the places of the QUANTITY entities whose text, commas taken out, is a number
Parsable(entities) ==
    {i \in Places(entities, QUANTITY) :
        ParseFloat(Replace(entities[i].text, ",", "")) # NoFloat}

Least(S) == CHOOSE x \in S : \A y \in S : x <= y

\* C16: an analysis carries the entity list of the extraction unchanged,
\* raises nothing, has as total_quantity the number of the first QUANTITY
\* entity whose text (commas taken out) is a number, and as primary_unit the
\* text of the first UNIT entity; each is None when there is no such entity.
C16_QuantityUnitConsolidation ==
    call.op = "analyze_construction_scope" =>
        /\ ~raised
        /\ outcome.entities = returned
        /\ outcome.total_quantity =
              IF Parsable(returned) = {} THEN NoFloat
              ELSE ParseFloat(Replace(returned[Least(Parsable(returned))].text, ",", ""))
        /\ outcome.primary_unit =
              IF Places(returned, LABEL_UNIT) = {} THEN None
              ELSE returned[Least(Places(returned, LABEL_UNIT))].text

\* C16 witness: an analysis whose entity list has a QUANTITY entity that is
\* no number before one that is, and the number of the later one as
\* total_quantity
C16_Witness ==
    /\ call.op = "analyze_construction_scope"
    /\ \E i \in Places(outcome.entities, QUANTITY) :
          /\ i \notin Parsable(outcome.entities)
          /\ \E j \in Parsable(outcome.entities) : i < j
    /\ outcome.total_quantity # NoFloat

\* the confidences of a list of entities, each in [0, 1]
ConfidencesInUnit(entities) ==
    \A i \in 1..Len(entities) :
        entities[i].confidence >= 0 /\ entities[i].confidence <= 100

\* C17: the confidence_score of an analysis is the arithmetic mean of the
\* confidences of the entities of its list, 0.0 for the empty list, and in
\* [0, 1] when every confidence is.
C17_ConfidenceMean ==
    call.op = "analyze_construction_scope" =>
        LET score == outcome.confidence_score
            entities == outcome.entities
        IN  /\ score.den > 0
            /\ score.num * Len(entities) = SumConfidence(entities) * score.den
            /\ Len(entities) = 0 => score.num = 0
            /\ ConfidencesInUnit(entities) =>
                  score.num >= 0 /\ score.num <= 100 * score.den

\* C17 witness: an analysis of entities of different confidences, one of them
\* at a half or under
C17_Witness ==
    /\ call.op = "analyze_construction_scope"
    /\ \E i, j \in 1..Len(outcome.entities) :
          /\ outcome.entities[i].confidence <= 50
          /\ outcome.entities[j].confidence > 50
    /\ outcome.confidence_score.num
          = SumConfidence(outcome.entities)
    /\ outcome.confidence_score.den = Len(outcome.entities)

\* the fixed list of verbs, in its order
FallbackVerbs ==
    <<"install", "pour", "frame", "excavate", "apply", "set", "place", "mount",
      "run", "lay">>

\* the places of the tokens that are verbs with a root or clausal-complement
\* dependency
MainVerbs(doc) ==
    {k \in 1..Len(doc) :
        doc[k].pos_ = "VERB" /\ doc[k].dep_ \in {"ROOT", "ccomp", "xcomp"}}

\* the places of the verbs of the list that occur in the text in lower case
VerbsIn(text) ==
    {k \in 1..Len(FallbackVerbs) : Substring(FallbackVerbs[k], Lower(text))}

Matchers(patterns) == {patterns[i] : i \in 1..Len(patterns)}

\* the patterns hold, among the matchers of a label, one for the canonical
\* name of the term with its underscores as spaces, one for each synonym and
\* one for each abbreviation
Covers(matchers, term) ==
    /\ Pattern(LITERAL, Replace(term.canonical_name, "_", " ")) \in matchers
    /\ \A synonym \in term.synonyms :
          \/ Pattern(LITERAL, synonym) \in matchers
          \/ Pattern(LITERAL, Replace(synonym, "_", " ")) \in matchers
    /\ \A abbrev \in term.abbreviations : Pattern(LITERAL, abbrev) \in matchers

\* the patterns are the ones compiled from the store as it is
CompiledNow == self_patterns = _build_patterns(Store, DictOrder(log))

\* C19 (as claimed): the patterns compiled from a store hold, for every term
\* of category material, unit or equipment, under the label of the category
\* a matcher for the canonical name with underscores as spaces, for each
\* synonym and for each abbreviation.
C19_PatternCoverage ==
    (nlp = LIGHT /\ CompiledNow) =>
        \A name \in DOMAIN vocabulary :
            LET term == vocabulary[name]
            IN  /\ term.category = MATERIAL => Covers(Matchers(self_patterns.material), term)
                /\ term.category = UNIT => Covers(Matchers(self_patterns.unit), term)
                /\ term.category = EQUIPMENT => Covers(Matchers(self_patterns.equipment), term)

\* C20 (as claimed): the entities an extract call returns are the ones found
\* with the patterns compiled from the store as it is at the call.
C20_PatternRegeneration ==
    [][(nlp = LIGHT /\ returned' # returned) =>
          returned' = light_extract_entities(Store,
                          _build_patterns(Store, DictOrder(log)), input_text)]_vars

\* the entities that carry an ontology alignment and have a label, in the
\* order of the list, as {original, canonical, category} records
RECURSIVE AlignedOfLabel(_, _)
AlignedOfLabel(entities, label) ==
    IF Len(entities) = 0 THEN << >>
    ELSE LET entity == Head(entities)
         IN  (IF entity.ontology_id # None /\ entity.label = label
              THEN <<[original |-> entity.text, canonical |-> entity.ontology_id,
                      category |-> entity.ontology_category]>>
              ELSE << >>)
             \o AlignedOfLabel(Tail(entities), label)

FreshAnalysis(text, doc) ==
    IF nlp = LIGHT
    THEN light_analyze_construction_scope(text,
             light_extract_entities(SeededStore,
                 _build_patterns(SeededStore, DictOrder(SeedTerms)), text))
    ELSE engine_analyze_construction_scope(text,
             engine_extract_entities(SeededStore, text, TRUE, is_trained,
                                     bert_entities, doc_ents), doc)

\* a step that is a call of _determine_work_type, analyze_construction_scope
\* or export_structured_output
AnalysisCall ==
    /\ input_text' = input_text
    /\ is_trained' = is_trained
    /\ call'.op \in {"_determine_work_type", "analyze_construction_scope",
                     "export_structured_output"}

\* C22: a call of analyze or export leaves the store and the compiled
\* patterns as they are, and the analysis (the work type with it) returned
\* for a text is the one an extractor that analyzed nothing before returns.
C22_AnalysisPurity ==
    [][AnalysisCall =>
          /\ storeVars' = storeVars
          /\ self_patterns' = self_patterns
          /\ call'.op = "_determine_work_type" =>
                outcome' = _determine_work_type(call'.args[1])
          /\ call'.op = "analyze_construction_scope" =>
                outcome' = FreshAnalysis(call'.args[1],
                               IF nlp = ENGINE THEN call'.args[2] ELSE << >>)]_vars

\* C22 witness: a work type returned for a text after the analysis of
\* another text, whose entities are not of this one
C22_Witness ==
    /\ call.op = "_determine_work_type"
    /\ call.args[1] = input_text
    /\ outcome # None
    /\ \E k \in 1..Len(returned) : ~Substring(returned[k].text, input_text)

\* the entities of rule-based-only extraction for the text of the run
RuleBasedOnly ==
    engine_extract_entities(Store, input_text, FALSE, is_trained, bert_entities,
                            doc_ents)

\* C23 (as claimed): an extract_entities call of the combined extractor does
\* not fail, and returns the entities of rule-based-only extraction when the
\* BERT model is not trained or its prediction raises an error.
C23_GracefulDegradation ==
    [][(is_trained' = is_trained /\ call'.op = "extract_entities") =>
          /\ ~raised'
          /\ (~is_trained \/ call'.args[3]) => returned' = RuleBasedOnly]_vars

\* the positions of the add_term calls of the log for a canonical name
CallsFor(name) == {i \in 1..Len(log) : log[i].canonical_name = name}

\* the synonyms and abbreviations a call before the last one for its
\* canonical name gave, that the last one does not give and that no call for
\* another canonical name registers
ReplacedForms ==
    UNION {{form \in log[i].synonyms \cup log[i].abbreviations :
              /\ Lower(form) \notin RegisteredKeys(log[Max(CallsFor(log[i].canonical_name))])
              /\ \A k \in 1..Len(log) :
                    log[k].canonical_name # log[i].canonical_name
                        => Lower(form) \notin RegisteredKeys(log[k])} :
           i \in 1..Len(log)}

\* C24 (as claimed): after a term is added again under its canonical name,
\* a synonym or abbreviation that only the replaced term had is not found by
\* normalize_term and get_term.
C24_ReAddReplaces ==
    \A form \in ReplacedForms :
        /\ normalize_term(Store, form) = None
        /\ get_term(Store, form) = NoTerm

\* C25: in every state of the store, those between the writes of an add_term
\* call included, every value of the synonym index and every member of every
\* category set is a key of the vocabulary table: get_term finds a term for
\* every string normalize_term resolves, and no get_terms_by_category call
\* of a reader raises on a missing name.
C25_IndexReferentialIntegrity ==
    /\ \A key \in DOMAIN synonym_map : synonym_map[key] \in DOMAIN vocabulary
    /\ \A category \in Categories : category_index[category] \subseteq DOMAIN vocabulary
    /\ \A form \in ReaderForms \cup DOMAIN synonym_map :
          normalize_term(Store, form) # None => get_term(Store, form) # NoTerm
    /\ ~raised

\* C25 witness: a reader got the term of an add_term call in progress under
\* a new canonical name, while the call had written the table entry and
\* part of the index keys
C25_Witness ==
    /\ call.op = "add_term"
    /\ call.args[1].canonical_name \notin DOMAIN SeededStore.vocabulary
    /\ add_term_steps[call.args[2]] \in {"synonyms", "abbreviations", "canonical_name"}
    /\ Lower(call.args[1].canonical_name) \notin DOMAIN synonym_map
    /\ returned = <<call.args[1]>>

\* the terms of the store of the category of a label from whose canonical
\* name, synonyms or abbreviations a pattern that matches the text of the
\* entity is compiled
SourceTerms(entity) ==
    {name \in DOMAIN vocabulary :
        /\ vocabulary[name].category = Lower(entity.label)
        /\ \E form \in SurfaceForms(vocabulary[name]) :
              Lower(Replace(form, "_", " ")) = Lower(entity.text)}

\* C26 (as claimed): with the seeded vocabulary, an entity of label UNIT,
\* MATERIAL or EQUIPMENT that the rule-based extraction returns with an
\* ontology alignment has the ontology category of its label and as
\* ontology_id the canonical name of a term its pattern was compiled from.
C26_AlignmentAgreesWithLabel ==
    (nlp = LIGHT /\ log = SeedTerms) =>
        \A k \in 1..Len(returned) :
            (/\ returned[k].label \in {"UNIT", "MATERIAL", "EQUIPMENT"}
             /\ returned[k].ontology_id # None)
            => /\ returned[k].ontology_category = Lower(returned[k].label)
               /\ returned[k].ontology_id \in SourceTerms(returned[k])

\* C27 (as claimed): every candidate of the list given to _remove_overlaps
\* that is absent from the result overlaps a candidate the result holds.
C27_SweepMaximality ==
    (nlp = LIGHT /\ Len(returned) > 0) =>
        \A i \in 1..Len(candidates) :
            ~Contains(returned, candidates[i]) =>
                \E k \in 1..Len(returned) : Overlap(candidates[i], returned[k])

\* the canonical name of the term get_term finds, None when it finds none
ResolvedName(S, form) ==
    IF get_term(S, form) = NoTerm THEN None ELSE get_term(S, form).canonical_name

\* C28 (as claimed): the store loaded from the export of a store resolves
\* every string as that store does: normalize_term returns the same
\* canonical name on both and get_term finds the term of the same name,
\* whatever order the names of a category are iterated in.
C28_RoundTripResolution ==
    [][(log' = log /\ loaded' # EmptyStore) =>
          \A form \in (DOMAIN synonym_map) \cup (DOMAIN loaded'.synonym_map)
                      \cup {"LIN FT", "portland cement", "rebar"} :
              /\ normalize_term(loaded', form) = normalize_term(Store, form)
              /\ ResolvedName(loaded', form) = ResolvedName(Store, form)]_vars

\* C29 (as claimed): under repeated successful runs of
\* create_monthly_retraining_batch followed by execute_retraining, every
\* stored correction is eventually marked processed by a batch that holds
\* it, and a batch never takes a correction already marked processed.
C29_EveryCorrectionRetrained ==
    /\ \A id \in 1..MaxCorrections :
           (id \in DOMAIN user_corrections) ~>
               (/\ id \in DOMAIN user_corrections
                /\ user_corrections[id].processed
                /\ user_corrections[id].batch_id \in retraining_batches)
    /\ [][(batch' # batch /\ batch'.status = "pending") =>
             \A id \in batch'.corrections : ~user_corrections[id].processed]_vars

\* C30 (as claimed): for a structured output whose total_quantity is none,
\* estimate_cost_from_analysis does not raise and returns the cost of the
\* quantity 1.0, and when run_shadow_tests has taken every historical
\* estimate it holds one result per estimate, in order.
C30_CostWithoutQuantity ==
    /\ (call.op = "estimate_cost_from_analysis"
        /\ call.args[1].analysis_metadata.total_quantity = NoFloat) =>
           /\ ~raised
           /\ outcome = Float(CostOf(call.args[1], call.args[2], Decimal("1", "")))
    /\ estimate_pos = Len(historical_estimates) =>
           /\ Len(shadow_results) = Len(historical_estimates)
           /\ \A i \in 1..Len(shadow_results) :
                  shadow_results[i].estimate_id = historical_estimates[i].estimate_id

=============================================================================
